---- MODULE Spec2Model ----
(***************************************************************************)
(* Credential lifecycle of the bernerspace gateway: the Credential Store   *)
(* (src/src/core/storeage_manager.py)                                      *)
(* and its Crypto Envelope (src/src/utils/crypto.py), the Slack and Google *)
(* OAuth callback handlers (src/src/services/*/route.py) and the Slack and *)
(* Google session resolution (slack_service.py, google/service.py,         *)
(* google/tools.py).                                                       *)
(*                                                                         *)
(* Strings that the code splits on ":" (identities, the OAuth state        *)
(* parameter) are sequences of their ":"-free segments, so "client_id:u1"  *)
(* is <<"client_id", "u1">> and str.split(":") is the sequence itself.     *)
(* A formatted message (an f-string) is the sequence of its parts.         *)
(***************************************************************************)
EXTENDS Integers, Sequences, FiniteSets, TLC

VARIABLES store, now, keys, last, mw, issued, procs

vars == <<store, now, keys, last, mw, issued, procs>>

-----------------------------------------------------------------------------
(* Bounds of the model *)

\* how many times the clock advances in one behaviour
MaxTicks == 2

-----------------------------------------------------------------------------
(* Values *)

\* a key that is absent from a dict / a query parameter that was not sent (None)
Absent == "<absent>"
AbsentInt == 0 - 1
NoSeq == <<>>

\* Python truthiness of an optional string: None and "" are falsy
Truthy(s) == s /= Absent /\ s /= ""

\* caller identities (the JWT "sub")
Ids == {<<"u1">>, <<"u2">>}

\* GoogleService._is_token_expired: token_data.get("expires_in", 3600)
DefaultExpiresIn == 3600

\* a token endpoint's answer to one POST
NoResp ==
    [kind |-> "none", http |-> 0, ok |-> FALSE, error |-> Absent,
     access_token |-> Absent, refresh_token |-> Absent, user_id |-> Absent,
     expires_in |-> AbsentInt]

\* a token payload (the dict that is serialised into token_json)
NoPayload ==
    [access_token |-> Absent, refresh_token |-> Absent, expires_in |-> AbsentInt,
     expires_at |-> AbsentInt, slack_user_id |-> Absent, jwt_client_id |-> NoSeq]

\* the key of a string that no Fernet key decrypts
NoKey == "<none>"

\* a string that was not given
NoString == [enc |-> FALSE, key |-> NoKey, text |-> NoPayload]

\* the result of decrypt_text's None, and of a call that was not made
NoDecrypt == <<NoPayload, FALSE, FALSE>>

\* a bearer token: form "none" when the request has no bearer token, "garbage"
\* when it is not a JWT; sig names the key that made the signature
NoToken ==
    [form |-> "none", alg |-> Absent, kid |-> Absent, sig |-> Absent,
     exp |-> AbsentInt, iss |-> Absent, aud |-> Absent, sub |-> NoSeq]

\* the claim set pyjwt.decode returns
NoClaims == [sub |-> NoSeq, iss |-> Absent, aud |-> Absent, exp |-> AbsentInt]

\* JWTAuthMiddleware(jwks_ttl_seconds: int = 3600)
JwksTtlSeconds == 3600

\* self._jwks_cache: {} after construction
NoCache == [set |-> FALSE, keys |-> {}]

\* the answer to a GET of the JWKS URL that was not sent
NoAnswer == [kind |-> "none", keys |-> {}]

\* a JWTAuthMiddleware that was given nothing; fetched_ok is history: a fetch
\* of the key set has succeeded
NoMiddleware ==
    [secret_key |-> Absent, issuer |-> Absent, audience |-> Absent,
     jwks_url |-> Absent, allow_user_id_header |-> FALSE,
     jwks_cache |-> NoCache, jwks_last_fetch |-> 0,
     jwks_ttl_seconds |-> JwksTtlSeconds, fetched_ok |-> FALSE]

\* requests in flight at the same time, and what one of them holds between
\* its awaits: where it is, the identity it works for, the row its session
\* loaded, whether its session has a transaction open, the provider's answer,
\* the token_json it computed, the time.time() it took, and how it ended
Procs == {"p1", "p2"}

NoProc ==
    [pc |-> "idle", op |-> "", id |-> NoSeq, found |-> FALSE, loaded |-> NoString,
     txn |-> FALSE, resp |-> NoResp, token_json |-> NoString, data |-> NoPayload,
     started |-> 0, answer |-> NoAnswer, fetched |-> NoCache, result |-> "",
     raced |-> FALSE]

NoProcs == [p \in Procs |-> NoProc]

\* the body of a JSONResponse
NoBody ==
    [error |-> NoSeq, details |-> NoSeq, message |-> NoSeq, echo |-> NoResp,
     jwt_client_id |-> NoSeq, slack_user_id |-> Absent, success |-> FALSE]

\* what the last operation was given and what it answered
NoLast ==
    [op |-> "init", id |-> NoSeq, code |-> Absent, state |-> NoSeq, error |-> Absent,
     resp |-> NoResp, db_ok |-> TRUE, status |-> 0, body |-> NoBody,
     writes |-> 0, posts |-> 0, result |-> "", token |-> Absent,
     url_state |-> NoSeq, key |-> NoSeq, typ |-> "",
     ring |-> NoSeq, wring |-> NoSeq, plain |-> NoString, ct |-> NoString,
     arg |-> NoString, dec |-> NoDecrypt, raised |-> FALSE,
     data |-> NoPayload, found |-> FALSE, existing |-> FALSE,
     hdr |-> NoSeq, bearer |-> NoToken, verified |-> FALSE, claims |-> NoClaims,
     err |-> "", fetches |-> 0, answer |-> NoAnswer, jwks |-> NoCache,
     next |-> FALSE, ctx_set |-> FALSE, ctx_user_id |-> NoSeq, ctx_auth |-> "",
     calls |-> 0, handler |-> "", proc |-> ""]

Range(s) == {s[i] : i \in DOMAIN s}

-----------------------------------------------------------------------------
(* Crypto Envelope, src/src/utils/crypto.py *)

(* A string that can sit in the token_json column is a record:             *)
(*   enc   it starts with CIPHERTEXT_PREFIX, "enc:v1:"                      *)
(*   key   the Fernet key under which the rest of it is a valid token       *)
(*         (NoKey: under none, or the string has no prefix)                 *)
(*   text  what the token encrypts; for a string without the prefix, what   *)
(*         the string says                                                  *)

\* Fernet keys: three valid ones, a blank entry, and one that is not a
\* base64 urlsafe-encoded 32-byte key
ValidKeys == {"k1", "k2", "k3"}
BlankKey == ""
BadKey == "not-a-fernet-key"
\* what a raising call answers
ValueError == [raised |-> "ValueError"]

\* line 14: [k.strip() for k in keys if k and k.strip()]
RECURSIVE clean_keys(_)
clean_keys(ring) ==
    IF ring = <<>> THEN <<>>
    ELSE IF Head(ring) = BlankKey THEN clean_keys(Tail(ring))
    ELSE <<Head(ring)>> \o clean_keys(Tail(ring))

\* _build_fernet: the keys of the MultiFernet in order, <<>> for None
_build_fernet(ring) ==
    LET clean == clean_keys(ring) IN
    IF clean = <<>> THEN <<>>
    ELSE IF \E i \in DOMAIN clean : clean[i] \notin ValidKeys THEN <<>>
    ELSE clean

\* MultiFernet.encrypt with the last key of the ring
MultiFernetEncrypt_Oldest(f, plaintext) ==
    [enc |-> TRUE, key |-> f[Len(f)], text |-> plaintext]

\* line 32-33: f.encrypt(...) is Fernet.encrypt of the first key; the result
\* carries the prefix
MultiFernetEncrypt(f, plaintext) == [enc |-> TRUE, key |-> f[1], text |-> plaintext]

\* MultiFernetDecrypts that tries the first key only
MultiFernetDecrypts_FirstOnly(f, s) == s.key = f[1]

\* line 52: f.decrypt(ct) tries every key in order and raises InvalidToken
\* when none authenticates the token
MultiFernetDecrypts(f, s) == \E i \in DOMAIN f : s.key = f[i]

\* encrypt_text that hands the plaintext back when it has no usable key
encrypt_text_Plain(plaintext, ring) ==
    LET f == _build_fernet(ring) IN
    IF f = <<>> THEN plaintext ELSE MultiFernetEncrypt(f, plaintext)

\* encrypt_text(plaintext, keys): the prefixed ciphertext, or ValueError
encrypt_text(plaintext, ring) ==
    LET f == _build_fernet(ring) IN
    IF f = <<>> THEN ValueError ELSE MultiFernetEncrypt(f, plaintext)

\* decrypt_text that gives the whole value, prefix included, to f.decrypt
decrypt_text_PrefixKept(s, ring) ==
    IF ~s.enc THEN <<s, TRUE, FALSE>> ELSE <<NoPayload, FALSE, TRUE>>

\* decrypt_text that builds the Fernet before it looks at the prefix
decrypt_text_KeysFirst(s, ring) ==
    LET f == _build_fernet(ring) IN
    IF f = <<>> THEN <<NoPayload, FALSE, TRUE>>
    ELSE IF ~s.enc THEN <<s, TRUE, FALSE>>
    ELSE IF MultiFernetDecrypts(f, s) THEN <<s.text, TRUE, TRUE>>
    ELSE <<NoPayload, FALSE, TRUE>>

\* decrypt_text that hands the input back when it cannot decrypt it
decrypt_text_PassThrough(s, ring) ==
    LET f == _build_fernet(ring) IN
    IF ~s.enc THEN <<s, TRUE, FALSE>>
    ELSE IF f = <<>> THEN <<s, TRUE, FALSE>>
    ELSE IF MultiFernetDecrypts(f, s) THEN <<s.text, TRUE, TRUE>>
    ELSE <<s, TRUE, FALSE>>

\* decrypt_text(maybe_ciphertext, keys): <<plaintext, plaintext is not None,
\* encrypted_flag>>
decrypt_text(s, ring) ==
    LET f == _build_fernet(ring) IN
    IF ~s.enc THEN <<s, TRUE, FALSE>>
    ELSE IF f = <<>> THEN <<NoPayload, FALSE, TRUE>>
    ELSE IF MultiFernetDecrypts(f, s) THEN <<s.text, TRUE, TRUE>>
    ELSE <<NoPayload, FALSE, TRUE>>

-----------------------------------------------------------------------------
(* Credential Store, src/src/core/storeage_manager.py *)

\* line 37: json.dumps(token_data), a string without the prefix
json_dumps(token_data) == [enc |-> FALSE, key |-> NoKey, text |-> token_data]

\* line 89: json.loads(data_str) of a string json.dumps wrote
json_loads(s) == s.text

\* the token_data a stored string holds, read through its envelope
PayloadOf(token_json) ==
    IF token_json.enc THEN json_loads(token_json.text) ELSE json_loads(token_json)

\* select(OAuthToken).where(client_id == ..., integration_type == ...)
Rows(st, client_id, typ) ==
    {r \in st : r.client_id = client_id /\ r.integration_type = typ}

HasRow(st, client_id, typ) == Rows(st, client_id, typ) /= {}

TheRow(st, client_id, typ) == CHOOSE r \in Rows(st, client_id, typ) : TRUE

\* Upsert that always adds a row and never looks for the existing one
Upsert_AlwaysInsert(st, client_id, typ, token_json, at) ==
    st \cup {[client_id |-> client_id, integration_type |-> typ,
              token_json |-> token_json, stored_at |-> at]}

\* Upsert that leaves an existing row as it is
Upsert_KeepExisting(st, client_id, typ, token_json, at) ==
    IF Rows(st, client_id, typ) /= {} THEN st
    ELSE st \cup {[client_id |-> client_id, integration_type |-> typ,
                   token_json |-> token_json, stored_at |-> at]}

\* the upsert both writers perform: update the existing row or add one
Upsert(st, client_id, typ, token_json, at) ==
    (st \ Rows(st, client_id, typ))
        \cup {[client_id |-> client_id, integration_type |-> typ,
               token_json |-> token_json, stored_at |-> at]}

\* lines 40-45: `if TOKEN_ENCRYPTION_KEYS:` is true of a non-empty list, and
\* encrypt_text then raises when the list holds no usable key
WriteRaises(ring) == ring /= <<>> /\ encrypt_text(json_dumps(NoPayload), ring) = ValueError

\* lines 37-45: the string write_token stores
TokenJson(token_data, ring) ==
    IF ring /= <<>> THEN encrypt_text(json_dumps(token_data), ring)
    ELSE json_dumps(token_data)

\* TokenStorageManager.write_token: the store after the write; a raising
\* write leaves the store as it was
write_token(st, ring, client_id, token_data, typ, at) ==
    IF WriteRaises(ring) THEN st
    ELSE Upsert(st, client_id, typ, TokenJson(token_data, ring), at)

\* read_token that answers what an envelope holds although no key decrypts it
read_token_IgnoresKeys(st, ring, client_id, typ) ==
    IF ~HasRow(st, client_id, typ) THEN <<FALSE, NoPayload>>
    ELSE <<TRUE, PayloadOf(TheRow(st, client_id, typ).token_json)>>

\* read_token that parses whatever is in the column, envelope or not
read_token_NoDecrypt(st, ring, client_id, typ) ==
    IF ~HasRow(st, client_id, typ) THEN <<FALSE, NoPayload>>
    ELSE LET raw == TheRow(st, client_id, typ).token_json
         IN  IF raw.enc THEN <<FALSE, NoPayload>> ELSE <<TRUE, json_loads(raw)>>

\* TokenStorageManager.read_token: <<a dict is returned, token_data>>
read_token(st, ring, client_id, typ) ==
    IF ~HasRow(st, client_id, typ) THEN <<FALSE, NoPayload>>
    ELSE LET raw == TheRow(st, client_id, typ).token_json
             d == decrypt_text(raw, ring)
         IN  IF d[3] /\ ~d[2] THEN <<FALSE, NoPayload>>
             ELSE IF d[3] THEN <<TRUE, json_loads(d[1])>>
             ELSE <<TRUE, json_loads(raw)>>

-----------------------------------------------------------------------------
(* Slack OAuth callback, src/src/services/slack/route.py *)

\* what oauth.v2.access can answer when it grants the code
SlackGrants(tokens, users, lifetimes) ==
    {[NoResp EXCEPT !.kind = "json", !.http = 200, !.ok = TRUE,
                    !.access_token = a, !.user_id = u, !.expires_in = e]
        : a \in tokens, u \in users, e \in lifetimes}

\* what it can answer otherwise (aiohttp does not raise on an HTTP status)
SlackRefusals ==
    {[NoResp EXCEPT !.kind = "neterr"],
     [NoResp EXCEPT !.kind = "badjson", !.http = 500]}
    \cup {[NoResp EXCEPT !.kind = "json", !.http = h, !.error = "invalid_code"]
            : h \in {200, 400}}

\* str(e) of the exception the exchange raised
SlackExcText(resp) ==
    IF resp.kind = "neterr" THEN "Cannot connect to host slack.com:443"
    ELSE "Attempt to decode JSON with unexpected mimetype"

\* line 24: state.split(":")[1] if state and ":" in state else None
SlackStateClientId(state) ==
    IF state /= NoSeq /\ state /= <<"">> /\ Len(state) >= 2 THEN state[2] ELSE Absent

\* lines 74-89: enhanced_token_data
EnhancedTokenData(resp, jwt_client_id) ==
    [NoPayload EXCEPT !.access_token = resp.access_token,
                      !.expires_at = resp.expires_in,
                      !.slack_user_id = resp.user_id,
                      !.jwt_client_id = <<jwt_client_id>>]

\* lines 26-40: the parameter checks, in the order the handler makes them
SlackParamCheck(code, state, error) ==
    IF Truthy(error) THEN "error"
    ELSE IF ~Truthy(code) THEN "no_code"
    ELSE IF ~Truthy(SlackStateClientId(state)) THEN "no_state"
    ELSE "exchange"

\* lines 53-68 and 90: what the handler does with the answer to the exchange
SlackAnswerCheck(resp, db_ok) ==
    IF resp.kind /= "json" THEN "exception"
    ELSE IF ~resp.ok THEN "not_ok"
    ELSE IF ~Truthy(resp.user_id) THEN "no_user"
    ELSE IF ~db_ok THEN "db_error"
    ELSE "stored"

\* the handler's answer and effect, as the fields of `last` it sets
SlackCallbackOutcome(code, state, error, resp, db_ok) ==
    LET jwt_client_id == SlackStateClientId(state)
        check == SlackParamCheck(code, state, error)
        base == [NoLast EXCEPT !.op = "slack_callback", !.code = code, !.state = state,
                               !.error = error, !.typ = "slack"]
        sent == [base EXCEPT !.posts = 1, !.resp = resp, !.db_ok = db_ok]
        answer == SlackAnswerCheck(resp, db_ok)
    IN  IF check = "error" THEN
            [base EXCEPT !.status = 400,
                         !.body = [NoBody EXCEPT
                             !.error = <<"OAuth authorization failed: ", error>>,
                             !.message = <<"Please try the OAuth flow again">>]]
        ELSE IF check = "no_code" THEN
            [base EXCEPT !.status = 400,
                         !.body = [NoBody EXCEPT
                             !.error = <<"No authorization code received">>,
                             !.message = <<"OAuth callback missing required code parameter">>]]
        ELSE IF check = "no_state" THEN
            [base EXCEPT !.status = 400,
                         !.body = [NoBody EXCEPT
                             !.error = <<"No JWT client ID found in state parameter">>,
                             !.message = <<"Invalid OAuth state parameter">>]]
        ELSE IF answer = "exception" THEN
            [sent EXCEPT !.status = 500,
                         !.body = [NoBody EXCEPT
                             !.error = <<"OAuth callback failed: ", SlackExcText(resp)>>,
                             !.message = <<"Please try the OAuth flow again">>]]
        ELSE IF answer = "not_ok" THEN
            [sent EXCEPT !.status = 400,
                         !.body = [NoBody EXCEPT
                             !.error = <<"OAuth token exchange failed: ",
                                         IF resp.error /= Absent THEN resp.error
                                         ELSE "Unknown error">>,
                             !.echo = resp,
                             !.message = <<"Please try the OAuth flow again">>]]
        ELSE IF answer = "no_user" THEN
            [sent EXCEPT !.status = 400,
                         !.body = [NoBody EXCEPT
                             !.error = <<"No user ID received from Slack">>,
                             !.echo = resp,
                             !.message = <<"Invalid response from Slack OAuth">>]]
        ELSE IF answer = "db_error" THEN
            [sent EXCEPT !.status = 500,
                         !.body = [NoBody EXCEPT
                             !.error = <<"OAuth callback failed: ", "SQLAlchemyError">>,
                             !.message = <<"Please try the OAuth flow again">>]]
        ELSE
            [sent EXCEPT !.status = 200, !.writes = 1, !.key = <<jwt_client_id>>,
                         !.body = [NoBody EXCEPT
                             !.success = TRUE,
                             !.message = <<"Successfully authorized! You can now use Slack tools.">>,
                             !.jwt_client_id = <<jwt_client_id>>,
                             !.slack_user_id = resp.user_id]]

\* slack_oauth_callback(request)
SlackCallback(code, state, error, resp, db_ok) ==
    LET out == SlackCallbackOutcome(code, state, error, resp,
                                    db_ok /\ ~WriteRaises(keys)) IN
    /\ last' = out
    /\ store' = IF out.writes = 1
                THEN write_token(store, keys, out.key,
                                 EnhancedTokenData(resp, SlackStateClientId(state)),
                                 "slack", now)
                ELSE store
    /\ UNCHANGED <<now, keys, mw, issued, procs>>

-----------------------------------------------------------------------------
(* Time *)

\* the clock advances by a second or by a whole default validity window
Tick(d) ==
    /\ (now \div DefaultExpiresIn) + (now % DefaultExpiresIn) < MaxTicks
    /\ now' = now + d
    /\ last' = [NoLast EXCEPT !.op = "tick"]
    /\ UNCHANGED <<store, keys, mw, issued, procs>>

-----------------------------------------------------------------------------
(* Slack session resolution, src/src/services/slack/slack_service.py *)

\* get_oauth_url, lines 60 and 67: f"client_id:{jwt_client_id}"
SlackOAuthState(jwt_client_id) == <<"client_id">> \o jwt_client_id

\* SlackBotAPIService.__init__, line 81: bot_token.startswith('xoxb-'), over the
\* tokens the model draws ("xoxe.xoxb-2", a rotated bot token, does not)
IsBotToken(t) == t \in {"xoxb-1", "xoxb-2"}

\* SlackBotAPIService.from_context(ctx), ctx holding the identity id
SlackFromContextOutcome(st, ring, id) ==
    LET rd == read_token(st, ring, id, "slack")
        access_token == IF rd[1] THEN rd[2].access_token ELSE Absent
        base == [NoLast EXCEPT !.op = "slack_from_context", !.id = id, !.typ = "slack"]
    IN  IF ~Truthy(access_token) THEN
            [base EXCEPT !.result = "requires_auth",
                         !.url_state = SlackOAuthState(id)]
        ELSE IF ~IsBotToken(access_token) THEN
            [base EXCEPT !.result = "raise"]
        ELSE
            [base EXCEPT !.result = "service", !.token = access_token]

\* the consent URLs issued so far, as (provider, identity named by the state),
\* with the one the answer of a resolution carries
IssuedWith(out) ==
    IF out.result = "requires_auth" THEN issued \cup {<<out.typ, out.id>>} ELSE issued

SlackFromContext(id) ==
    LET out == SlackFromContextOutcome(store, keys, id) IN
    /\ last' = out
    /\ issued' = IssuedWith(out)
    /\ UNCHANGED <<store, now, keys, mw, procs>>

-----------------------------------------------------------------------------
(* Google OAuth callback, src/src/services/google/route.py and              *)
(* GoogleService.exchange_code_for_token, src/src/services/google/service.py *)

\* what the Google token endpoint can answer when it grants a code exchange
\* or a refresh
GoogleGrants(tokens, refresh_tokens, lifetimes) ==
    {[NoResp EXCEPT !.kind = "json", !.http = 200, !.ok = TRUE,
                    !.access_token = a, !.refresh_token = r, !.expires_in = e]
        : a \in tokens, r \in refresh_tokens, e \in lifetimes}

\* what it can answer otherwise
GoogleRefusals ==
    {[NoResp EXCEPT !.kind = "neterr"],
     [NoResp EXCEPT !.kind = "badjson", !.http = 200],
     [NoResp EXCEPT !.kind = "json", !.http = 400, !.error = "invalid_grant"]}

\* client.post(...), response.raise_for_status(), response.json() went through
GoogleResponseOk(resp) == resp.kind = "json" /\ resp.http < 400

\* str(e) of the exception httpx raised
GoogleExcText(resp) ==
    IF resp.kind = "neterr" THEN "All connection attempts failed"
    ELSE IF resp.kind = "badjson" THEN "Expecting value: line 1 column 1 (char 0)"
    ELSE "Client error '400 Bad Request' for url 'https://oauth2.googleapis.com/token'"

\* response.json() as the token_data dict
GoogleTokenData(resp) ==
    [NoPayload EXCEPT !.access_token = resp.access_token,
                      !.refresh_token = resp.refresh_token,
                      !.expires_in = resp.expires_in]

\* lines 127-143: token_json = json.dumps(token_data), never encrypted
PlainJson(token_data) == json_dumps(token_data)

\* GoogleParamCheck with the error parameter looked at only when code or state
\* is missing
GoogleParamCheck_ErrorLast(code, state, error, cfg_ok) ==
    IF ~Truthy(code) \/ state = NoSeq \/ state = <<"">>
    THEN (IF Truthy(error) THEN "error" ELSE "missing")
    ELSE IF ~cfg_ok THEN "not_configured"
    ELSE "exchange"

\* route.py lines 26-36 and service.py lines 111-112: the checks before the POST
GoogleParamCheck(code, state, error, cfg_ok) ==
    IF Truthy(error) THEN "error"
    ELSE IF ~Truthy(code) \/ state = NoSeq \/ state = <<"">> THEN "missing"
    ELSE IF ~cfg_ok THEN "not_configured"
    ELSE "exchange"

GoogleCallbackOutcome(code, state, error, cfg_ok, resp, db_ok) ==
    LET check == GoogleParamCheck(code, state, error, cfg_ok)
        base == [NoLast EXCEPT !.op = "google_callback", !.code = code, !.state = state,
                               !.error = error, !.typ = "google"]
        sent == [base EXCEPT !.posts = 1, !.resp = resp, !.db_ok = db_ok]
        failed(req, text) ==
            [req EXCEPT !.status = 500,
                        !.body = [NoBody EXCEPT
                            !.error = <<"Failed to exchange code for token">>,
                            !.details = <<text>>]]
    IN  IF check = "error" THEN
            [base EXCEPT !.status = 400,
                         !.body = [NoBody EXCEPT !.error = <<"OAuth failed">>,
                                                 !.details = <<error>>]]
        ELSE IF check = "missing" THEN
            [base EXCEPT !.status = 400,
                         !.body = [NoBody EXCEPT
                             !.error = <<"Invalid callback request">>,
                             !.details = <<"Missing code or state.">>]]
        ELSE IF check = "not_configured" THEN
            failed(base, "Google client credentials are not configured.")
        ELSE IF ~GoogleResponseOk(resp) THEN failed(sent, GoogleExcText(resp))
        ELSE IF ~db_ok THEN failed(sent, "SQLAlchemyError")
        ELSE
            [sent EXCEPT !.status = 200, !.writes = 1, !.key = state,
                         !.body = [NoBody EXCEPT
                             !.success = TRUE,
                             !.message = <<"Successfully authenticated with Google.">>]]

\* oauth_google_callback(request)
GoogleCallback(code, state, error, cfg_ok, resp, db_ok) ==
    LET out == GoogleCallbackOutcome(code, state, error, cfg_ok, resp, db_ok) IN
    /\ last' = out
    /\ store' = IF out.writes = 1
                THEN Upsert(store, state, "google", PlainJson(GoogleTokenData(resp)), now)
                ELSE store
    /\ UNCHANGED <<now, keys, mw, issued, procs>>

-----------------------------------------------------------------------------
(* Google session resolution, src/src/services/google/service.py and        *)
(* src/src/services/google/tools.py                                         *)

\* GoogleService._is_token_expired
_is_token_expired(token_data, stored_at, t) ==
    LET expires_in == IF token_data.expires_in /= AbsentInt THEN token_data.expires_in
                      ELSE DefaultExpiresIn
    IN  t >= stored_at + expires_in

\* DictUpdate with the stored refresh token overwritten by whatever the answer
\* holds, also when it holds none
DictUpdate_DropRefresh(token_data, new) ==
    [token_data EXCEPT
        !.access_token = IF new.access_token /= Absent THEN new.access_token ELSE @,
        !.refresh_token = new.refresh_token,
        !.expires_in = IF new.expires_in /= AbsentInt THEN new.expires_in ELSE @]

\* line 71: token_data.update(new_token_data)
DictUpdate(token_data, new) ==
    [token_data EXCEPT
        !.access_token = IF new.access_token /= Absent THEN new.access_token ELSE @,
        !.refresh_token = IF new.refresh_token /= Absent THEN new.refresh_token ELSE @,
        !.expires_in = IF new.expires_in /= AbsentInt THEN new.expires_in ELSE @]

\* GoogleService.get_oauth_url, line 105: "state": self.client_id
GoogleOAuthState(client_id) == client_id

\* the refresh POST is sent only for an expired record that holds a refresh token
GoogleRefreshSent(st, id, t) ==
    /\ HasRow(st, id, "google")
    /\ LET row == TheRow(st, id, "google") IN
        /\ ~row.token_json.enc
        /\ _is_token_expired(row.token_json.text, row.stored_at, t)
        /\ Truthy(row.token_json.text.refresh_token)

\* GoogleService.is_authenticated with _refresh_token, run to completion
IsAuthenticatedOutcome(st, id, t, resp, db_ok) ==
    LET base == [NoLast EXCEPT !.op = "google_is_authenticated", !.id = id,
                               !.typ = "google"]
    IN  IF ~HasRow(st, id, "google") THEN [base EXCEPT !.result = "false"]
        ELSE LET row == TheRow(st, id, "google") IN
            IF row.token_json.enc THEN [base EXCEPT !.result = "raise"]
            ELSE IF ~_is_token_expired(row.token_json.text, row.stored_at, t)
                 THEN [base EXCEPT !.result = "true"]
            ELSE IF ~Truthy(row.token_json.text.refresh_token)
                 THEN [base EXCEPT !.result = "false"]
            ELSE LET sent == [base EXCEPT !.posts = 1, !.resp = resp, !.db_ok = db_ok] IN
                 IF GoogleResponseOk(resp) /\ db_ok
                 THEN [sent EXCEPT !.result = "true", !.writes = 1, !.key = id]
                 ELSE [sent EXCEPT !.result = "false"]

IsAuthenticated(id, resp, db_ok) ==
    LET out == IsAuthenticatedOutcome(store, id, now, resp, db_ok) IN
    /\ last' = out
    /\ store' = IF out.writes = 1
                THEN LET row == TheRow(store, id, "google") IN
                     Upsert(store, id, "google",
                            PlainJson(DictUpdate(row.token_json.text, GoogleTokenData(resp))),
                            now)
                ELSE store
    /\ UNCHANGED <<now, keys, mw, issued, procs>>

\* tools.py line 56: `if not google_service.is_authenticated():` tests the
\* coroutine object, which is never awaited and is always true
CoroutineTruth(st, id, t) == TRUE

\* _get_google_service(ctx), ctx holding the identity id
GetGoogleServiceOutcome(st, id, t, has_db_session) ==
    LET base == [NoLast EXCEPT !.op = "get_google_service", !.id = id, !.typ = "google"]
    IN  IF ~has_db_session THEN [base EXCEPT !.result = "error"]
        ELSE IF ~CoroutineTruth(st, id, t)
             THEN [base EXCEPT !.result = "requires_auth",
                               !.url_state = GoogleOAuthState(id)]
        ELSE [base EXCEPT !.result = "service",
                          !.token = IF HasRow(st, id, "google")
                                    THEN TheRow(st, id, "google").token_json.text.access_token
                                    ELSE Absent]

GetGoogleService(id, has_db_session) ==
    LET out == GetGoogleServiceOutcome(store, id, now, has_db_session) IN
    /\ last' = out
    /\ issued' = IssuedWith(out)
    /\ UNCHANGED <<store, now, keys, mw, procs>>

\* the get_google_oauth_url tool, auth_tools.py lines 69-80: the URL of
\* GoogleService.get_oauth_url for the caller's identity
GetGoogleOAuthUrl(id, has_db_session) ==
    LET base == [NoLast EXCEPT !.op = "get_google_oauth_url", !.id = id,
                               !.typ = "google"]
        out == IF ~has_db_session THEN [base EXCEPT !.result = "error"]
               ELSE [base EXCEPT !.result = "requires_auth",
                                 !.url_state = GoogleOAuthState(id)]
    IN  /\ last' = out
        /\ issued' = IssuedWith(out)
        /\ UNCHANGED <<store, now, keys, mw, procs>>

-----------------------------------------------------------------------------
(* Inputs *)

Codes == {Absent, "c1"}
Errors == {Absent, "access_denied"}
SlackStates == {NoSeq, <<"u1">>, <<"client_id", "">>}
                   \cup {<<"client_id">> \o i : i \in Ids}
GoogleStates == {NoSeq} \cup Ids

\* the exchange POST is sent only past the three parameter checks
SlackExchangeSent(c, s, e) == SlackParamCheck(c, s, e) = "exchange"

\* write_token is called only for an ok answer that names the user
SlackWriteCalled(r) == r.kind = "json" /\ r.ok /\ Truthy(r.user_id)

\* the exchange POST is sent only past the parameter and configuration checks
GoogleExchangeSent(c, s, e, cfg_ok) == GoogleParamCheck(c, s, e, cfg_ok) = "exchange"

Init ==
    /\ store = {}
    /\ now = 0
    /\ keys \in {<<>>, <<"k1">>}
    /\ last = NoLast
    /\ mw = NoMiddleware
    /\ issued = {}
    /\ procs = NoProcs

\* a Slack callback request with any parameters and any provider answer
AnySlackCallback(grants) ==
    \E c \in Codes, s \in SlackStates, e \in Errors :
       \E r \in (IF SlackExchangeSent(c, s, e) THEN grants \cup SlackRefusals
                 ELSE {NoResp}) :
          \E ok \in (IF SlackWriteCalled(r) THEN BOOLEAN ELSE {TRUE}) :
             SlackCallback(c, s, e, r, ok)

\* a Google callback request with any parameters and any provider answer
AnyGoogleCallback(grants) ==
    \E c \in Codes, s \in GoogleStates, e \in Errors, cfg_ok \in BOOLEAN :
       \E r \in (IF GoogleExchangeSent(c, s, e, cfg_ok) THEN grants \cup GoogleRefusals
                 ELSE {NoResp}) :
          \E ok \in (IF GoogleResponseOk(r) THEN BOOLEAN ELSE {TRUE}) :
             GoogleCallback(c, s, e, cfg_ok, r, ok)

\* the callback that ends a consent flow the gateway started for identity i
SlackConsent(i, grants) ==
    \E r \in grants : SlackCallback("c1", SlackOAuthState(i), Absent, r, TRUE)

GoogleConsent(i, grants) ==
    \E r \in grants : GoogleCallback("c1", GoogleOAuthState(i), Absent, TRUE, r, TRUE)

\* a call of is_authenticated with any answer to the refresh it may send
AnyIsAuthenticated(i, grants) ==
    \E r \in (IF GoogleRefreshSent(store, i, now) THEN grants \cup GoogleRefusals
              ELSE {NoResp}) :
       \E ok \in (IF GoogleResponseOk(r) THEN BOOLEAN ELSE {TRUE}) :
          IsAuthenticated(i, r, ok)

(* The two callback handlers under every request. *)
NextCallback ==
    \/ AnySlackCallback(SlackGrants({Absent, "xoxb-1"}, {Absent, "U1"}, {AbsentInt}))
    \/ AnyGoogleCallback(GoogleGrants({"ya-1"}, {Absent, "rt-1"}, {AbsentInt}))

SpecCallback == Init /\ [][NextCallback]_vars

(* Consent URLs handed out, and callback requests with any state. *)
NextConsent ==
    \/ \E i \in Ids : SlackFromContext(i)
    \/ \E i \in Ids, has_db \in BOOLEAN : GetGoogleOAuthUrl(i, has_db)
    \/ AnySlackCallback(SlackGrants({"xoxb-1"}, {"U1"}, {AbsentInt}))
    \/ AnyGoogleCallback(GoogleGrants({"ya-1"}, {"rt-1"}, {AbsentInt}))

SpecConsent == Init /\ [][NextConsent]_vars

(* The Slack session over the records consent flows leave, as time passes. *)
NextSlack ==
    \/ \E i \in Ids :
          SlackConsent(i, SlackGrants({Absent, "xoxb-1", "xoxe.xoxb-2"}, {"U1"}, {AbsentInt, 1}))
    \/ \E i \in Ids : SlackFromContext(i)
    \/ \E d \in {1, DefaultExpiresIn} : Tick(d)

SpecSlack == Init /\ [][NextSlack]_vars

(* The Google session over the records consent flows leave, as time passes. *)
NextGoogle ==
    \/ \E i \in Ids :
          GoogleConsent(i, GoogleGrants({"ya-1"}, {Absent, "rt-1"}, {AbsentInt, 1}))
    \/ \E i \in Ids :
          AnyIsAuthenticated(i, GoogleGrants({"ya-2"}, {Absent, "rt-2"}, {AbsentInt, 1}))
    \/ \E i \in Ids, has_db \in BOOLEAN : GetGoogleService(i, has_db)
    \/ \E d \in {1, DefaultExpiresIn} : Tick(d)

SpecGoogle == Init /\ [][NextGoogle]_vars

-----------------------------------------------------------------------------
(* The Credential Store and the Crypto Envelope called on their own *)

\* how many entries TOKEN_ENCRYPTION_KEYS holds at most
MaxRing == 2

\* an entry of TOKEN_ENCRYPTION_KEYS
KeyEntries == ValidKeys \cup {BlankKey, BadKey}

RECURSIVE RingsOfLen(_)
RingsOfLen(n) ==
    IF n = 0 THEN {<<>>}
    ELSE {<<k>> \o r : k \in KeyEntries, r \in RingsOfLen(n - 1)}

\* every list of at most MaxRing entries
Rings == UNION {RingsOfLen(n) : n \in 0..MaxRing}

\* every key of the ring is a usable Fernet key
AllValid(ring) == ring /= <<>> /\ \A i \in DOMAIN ring : ring[i] \in ValidKeys

\* token_data dicts given to write_token
TokenDatas ==
    {[NoPayload EXCEPT !.access_token = "xoxb-1", !.slack_user_id = "U1"],
     [NoPayload EXCEPT !.access_token = "ya-1", !.refresh_token = "rt-1",
                       !.expires_in = DefaultExpiresIn]}

\* plaintexts given to encrypt_text: JSON texts, and a text that itself
\* starts with the prefix
Plaintexts ==
    {json_dumps(t) : t \in TokenDatas}
        \cup {[enc |-> TRUE, key |-> NoKey, text |-> json_dumps(NoPayload)]}

\* strings given to decrypt_text that encrypt_text did not just produce:
\* texts without the prefix, a prefixed value that is no Fernet token, and a
\* token made under k1 some time ago
Strings ==
    Plaintexts
        \cup {[enc |-> TRUE, key |-> "k1", text |-> p] : p \in {json_dumps(t) : t \in TokenDatas}}

\* TOKEN_ENCRYPTION_KEYS values a deployment of the store moves between
StoreRings == {<<>>, <<"k1">>, <<"k2", "k1">>, <<BlankKey>>}

IntegrationTypes == {"slack", "google"}

\* the (client_id, integration_type) pairs write_token is called for
StorePairs == {<<<<"u1">>, "slack">>, <<<<"u1">>, "google">>, <<<<"u2">>, "slack">>}

\* encrypt_text(p, TOKEN_ENCRYPTION_KEYS)
EncryptText(p) ==
    /\ last' = [NoLast EXCEPT !.op = "encrypt_text", !.plain = p, !.ring = keys,
                              !.wring = keys, !.ct = encrypt_text(p, keys),
                              !.raised = (encrypt_text(p, keys) = ValueError)]
    /\ UNCHANGED <<store, now, keys, mw, issued, procs>>

\* the deployment restarts with another TOKEN_ENCRYPTION_KEYS; what was
\* encrypted before is still at hand
RotateKeys(ring) ==
    /\ ring /= keys
    /\ keys' = ring
    /\ last' = [NoLast EXCEPT !.op = "rotate_keys", !.plain = last.plain,
                              !.wring = last.wring, !.ct = last.ct,
                              !.raised = last.raised, !.ring = ring]
    /\ UNCHANGED <<store, now, mw, issued, procs>>

\* decrypt_text of the value encrypt_text produced last
DecryptHeld ==
    /\ last.wring /= <<>>
    /\ ~last.raised
    /\ last' = [last EXCEPT !.op = "decrypt_text", !.arg = last.ct, !.ring = keys,
                            !.dec = decrypt_text(last.ct, keys)]
    /\ UNCHANGED <<store, now, keys, mw, issued, procs>>

\* decrypt_text of any other string
DecryptText(s) ==
    /\ last' = [NoLast EXCEPT !.op = "decrypt_text", !.arg = s, !.ring = keys,
                              !.dec = decrypt_text(s, keys)]
    /\ UNCHANGED <<store, now, keys, mw, issued, procs>>

\* TokenStorageManager.write_token(client_id, token_data, integration_type);
\* db_ok: the session's select and commit go through
WriteToken(client_id, token_data, typ, db_ok) ==
    LET written == db_ok /\ ~WriteRaises(keys) IN
    /\ last' = [NoLast EXCEPT !.op = "write_token", !.id = client_id, !.typ = typ,
                              !.data = token_data, !.ring = keys, !.db_ok = db_ok,
                              !.existing = db_ok /\ HasRow(store, client_id, typ),
                              !.ct = IF db_ok /\ keys /= <<>>
                                     THEN encrypt_text(json_dumps(token_data), keys)
                                     ELSE NoString,
                              !.raised = ~written,
                              !.writes = IF written THEN 1 ELSE 0]
    /\ store' = IF written THEN write_token(store, keys, client_id, token_data, typ, now)
                ELSE store
    /\ UNCHANGED <<now, keys, mw, issued, procs>>

\* TokenStorageManager.read_token(client_id, integration_type); a
\* SQLAlchemyError is answered with None
ReadToken(client_id, typ, db_ok) ==
    LET rd == IF db_ok THEN read_token(store, keys, client_id, typ)
              ELSE <<FALSE, NoPayload>> IN
    /\ last' = [NoLast EXCEPT !.op = "read_token", !.id = client_id, !.typ = typ,
                              !.ring = keys, !.db_ok = db_ok,
                              !.found = rd[1], !.data = rd[2]]
    /\ UNCHANGED <<store, now, keys, mw, issued, procs>>

(* The Crypto Envelope under every key ring and every rotation. *)
InitCrypto ==
    /\ store = {}
    /\ now = 0
    /\ keys \in Rings
    /\ last = NoLast
    /\ mw = NoMiddleware
    /\ issued = {}
    /\ procs = NoProcs

NextCrypto ==
    \/ \E p \in Plaintexts : EncryptText(p)
    \/ \E r \in Rings : RotateKeys(r)
    \/ DecryptHeld
    \/ \E s \in Strings : DecryptText(s)

SpecCrypto == InitCrypto /\ [][NextCrypto]_vars

(* The Credential Store under writes, reads and key changes. *)
NextStore ==
    \/ \E p \in StorePairs, t \in TokenDatas, ok \in BOOLEAN :
          WriteToken(p[1], t, p[2], ok)
    \/ \E i \in Ids, typ \in IntegrationTypes, ok \in BOOLEAN : ReadToken(i, typ, ok)
    \/ \E r \in StoreRings : RotateKeys(r)
    \/ \E p \in Plaintexts : EncryptText(p)
    \/ \E s \in Strings : DecryptText(s)

SpecStore == Init /\ [][NextStore]_vars

(* Consent flows for identities that may hold a ":". *)
Subs == Ids \cup {<<"u1", "x">>}

NextState ==
    \/ \E i \in Subs : SlackFromContext(i)
    \/ \E i \in Subs :
          SlackConsent(i, SlackGrants({"xoxb-1", "xoxb-2"}, {"U1"}, {AbsentInt}))
    \/ \E i \in Subs :
          GoogleConsent(i, GoogleGrants({"ya-1", "ya-2"}, {Absent}, {AbsentInt}))

SpecState == Init /\ [][NextState]_vars

(* JWT verifier and identity boundary, src/src/middleware/auth.py *)

\* time.time() counts from 1970, many TTLs before the process starts; now is
\* the time since the process started
ProcessStart == 2 * JwksTtlSeconds
time_time(t) == ProcessStart + t

\* Python truthiness of an optional string that may hold ":"
TruthySeq(s) == s /= NoSeq /\ s /= <<"">>

JwksUrl == "https://idp.example/jwks.json"

\* str.startswith("http"), over the secrets the model draws
StartsWithHttp(s) == s = JwksUrl

\* the public keys a key set can hold; a token's sig names the public key of
\* the private key that signed it, or the shared secret that signed it
PublicKeys == {"rsa1", "rsa2"}

Jwk(kid, key) == [kid |-> kid, kty |-> "RSA", key |-> key]

\* __init__, lines 32-47, with the values of env_handler.py
JWTAuthMiddleware(secret_key, issuer, audience, jwks_url, allow_user_id_header, env_jwks_url, env_allow) ==
    [NoMiddleware EXCEPT
        !.secret_key = secret_key,
        !.issuer = issuer,
        !.audience = audience,
        !.jwks_url = IF Truthy(jwks_url) THEN jwks_url
                     ELSE IF StartsWithHttp(secret_key) THEN secret_key
                     ELSE env_jwks_url,
        !.allow_user_id_header =
            IF allow_user_id_header /= Absent THEN allow_user_id_header = "True"
            ELSE env_allow \in {"1", "true", "yes"}]

\* CacheFresh that never looks at the age of the cache
CacheFresh_IgnoresAge(m, t) == m.jwks_cache.set

\* line 75: the cache exists and is younger than the TTL
CacheFresh(m, t) ==
    m.jwks_cache.set /\ time_time(t) - m.jwks_last_fetch < m.jwks_ttl_seconds

\* lines 85-88: the fetched document as a dict with 'keys'
NormalizeJwks(answer) ==
    IF answer.kind \in {"dict", "list"} THEN [set |-> TRUE, keys |-> answer.keys]
    ELSE [set |-> TRUE, keys |-> {}]

\* FailedFetchCache that clears the cache
FailedFetchCache_Clears(cache) == [set |-> TRUE, keys |-> {}]

\* lines 91-96: the cache after a failed fetch
FailedFetchCache(cache) == IF ~cache.set THEN [set |-> TRUE, keys |-> {}] ELSE cache

\* FailedFetchStamp that remembers when the fetch failed
FailedFetchStamp_Remembers(m, t) == time_time(t)

\* lines 91-96: _jwks_last_fetch after a failed fetch
FailedFetchStamp(m, t) == m.jwks_last_fetch

\* JwksAfterAnswer that adds the fetched keys to the ones it holds
JwksAfterAnswer_Merges(m, t, answer) ==
    IF answer.kind /= "fail"
    THEN [m EXCEPT !.jwks_cache = [set |-> TRUE,
                                   keys |-> @.keys \cup NormalizeJwks(answer).keys],
                   !.jwks_last_fetch = time_time(t),
                   !.fetched_ok = TRUE]
    ELSE [m EXCEPT !.jwks_cache = FailedFetchCache(m.jwks_cache),
                   !.jwks_last_fetch = FailedFetchStamp(m, t)]

\* lines 81-96: the middleware once the GET of a call that took time.time() at
\* t is answered; nothing is awaited between the two assignments of lines
\* 85-89
JwksAfterAnswer(m, t, answer) ==
    IF answer.kind /= "fail"
    THEN [m EXCEPT !.jwks_cache = NormalizeJwks(answer),
                   !.jwks_last_fetch = time_time(t),
                   !.fetched_ok = TRUE]
    ELSE [m EXCEPT !.jwks_cache = FailedFetchCache(m.jwks_cache),
                   !.jwks_last_fetch = FailedFetchStamp(m, t)]

\* _fetch_jwks(): the middleware after the call, the key set returned and the
\* number of GETs sent
_fetch_jwks(m, t, answer) ==
    IF ~Truthy(m.jwks_url)
    THEN [mw |-> m, jwks |-> [set |-> TRUE, keys |-> {}], fetches |-> 0]
    ELSE IF CacheFresh(m, t) THEN [mw |-> m, jwks |-> m.jwks_cache, fetches |-> 0]
    ELSE [mw |-> JwksAfterAnswer(m, t, answer),
          jwks |-> JwksAfterAnswer(m, t, answer).jwks_cache, fetches |-> 1]

\* lines 101-106: the token has a header and the header has a kid
HasKid(token) == token.form = "jwt" /\ Truthy(token.kid)

\* _get_public_key_from_jwks(token): key is Absent for None
_get_public_key_from_jwks(m, token, t, answer) ==
    IF ~HasKid(token)
    THEN [key |-> Absent, mw |-> m, jwks |-> NoCache, fetches |-> 0]
    ELSE LET f == _fetch_jwks(m, t, answer)
             match == {j \in f.jwks.keys : j.kid = token.kid}
         IN  [key |-> IF \E j \in match : j.kty = "RSA"
                      THEN (CHOOSE j \in match : j.kty = "RSA").key
                      ELSE Absent,
              mw |-> f.mw, jwks |-> f.jwks, fetches |-> f.fetches]

\* what pyjwt.decode answers
Rejected(e) == [ok |-> FALSE, err |-> e, claims |-> NoClaims]

AlgFamily(alg) == IF alg = "RS256" THEN "RS" ELSE IF alg = "HS256" THEN "HS" ELSE "none"

KeyFamily(key) == IF key \in PublicKeys THEN "RS" ELSE "HS"

\* pyjwt.decode(token, key=..., algorithms=..., issuer=..., audience=...);
\* issuer and audience are Absent when the keyword is not passed
pyjwt_decode(token, key, algs, issuer, audience, t) ==
    IF token.form /= "jwt" THEN Rejected("DecodeError")
    ELSE IF token.alg \notin algs THEN Rejected("InvalidAlgorithmError")
    ELSE IF AlgFamily(token.alg) /= KeyFamily(key) THEN Rejected("InvalidKeyError")
    ELSE IF token.sig /= key THEN Rejected("InvalidSignatureError")
    ELSE IF token.exp /= AbsentInt /\ token.exp <= time_time(t)
         THEN Rejected("ExpiredSignatureError")
    ELSE IF issuer /= Absent /\ token.iss = Absent
         THEN Rejected("MissingRequiredClaimError")
    ELSE IF issuer /= Absent /\ token.iss /= issuer THEN Rejected("InvalidIssuerError")
    ELSE IF audience /= Absent /\ token.aud = Absent
         THEN Rejected("MissingRequiredClaimError")
    ELSE IF audience /= Absent /\ token.aud /= audience
         THEN Rejected("InvalidAudienceError")
    ELSE IF audience = Absent /\ token.aud /= Absent
         THEN Rejected("InvalidAudienceError")
    ELSE [ok |-> TRUE, err |-> "",
          claims |-> [sub |-> token.sub, iss |-> token.iss, aud |-> token.aud,
                      exp |-> token.exp]]

\* lines 160-163 and 174-177: the keyword is passed only for a truthy setting
DecodeKwarg(setting) == IF Truthy(setting) THEN setting ELSE Absent

\* WithoutPublicKey that tries the shared secret when the key set has no key
WithoutPublicKey_FallsBack(m, token, t) ==
    IF Truthy(m.secret_key)
    THEN pyjwt_decode(token, m.secret_key, {"HS256"}, DecodeKwarg(m.issuer),
                      DecodeKwarg(m.audience), t)
    ELSE Rejected("no public key")

\* lines 148-150: no public key for the token
WithoutPublicKey(m, token, t) == Rejected("no public key")

\* verify_token(token): every exception of lines 187-195 ends in None
verify_token(m, token, t, answer) ==
    IF Truthy(m.jwks_url)
    THEN LET k == _get_public_key_from_jwks(m, token, t, answer)
             d == IF k.key = Absent THEN WithoutPublicKey(m, token, t)
                  ELSE pyjwt_decode(token, k.key,
                                    IF Truthy(token.alg) THEN {token.alg} ELSE {"RS256"},
                                    DecodeKwarg(m.issuer), DecodeKwarg(m.audience), t)
         IN  [verified |-> d.ok, claims |-> d.claims, err |-> d.err, mw |-> k.mw,
              jwks |-> k.jwks, fetches |-> k.fetches]
    ELSE IF Truthy(m.secret_key)
    THEN LET d == pyjwt_decode(token, m.secret_key, {"HS256"},
                               DecodeKwarg(m.issuer), DecodeKwarg(m.audience), t)
         IN  [verified |-> d.ok, claims |-> d.claims, err |-> d.err, mw |-> m,
              jwks |-> NoCache, fetches |-> 0]
    ELSE [verified |-> FALSE, claims |-> NoClaims, err |-> "not configured", mw |-> m,
          jwks |-> NoCache, fetches |-> 0]

\* a GET of the JWKS URL is sent by verify_token(token)
JwksGetSent(m, token, t) == Truthy(m.jwks_url) /\ HasKid(token) /\ ~CacheFresh(m, t)

\* lines 200-204: the user-id header is taken as the identity
HeaderSupplies(m, hdr) == m.allow_user_id_header /\ TruthySeq(hdr)

\* PublishesPayload that publishes whatever the token says
PublishesPayload_Unverified(v) == TRUE

\* line 218: `if payload`, a claim set that is not empty
PublishesPayload(v) == v.verified /\ v.claims /= NoClaims

\* lines 199-211: `return await call_next(context)` sits inside the try, so an
\* exception of the handler is caught with the others and the JWT flow follows
HeaderPathReturns(handler) == handler = "returns"

\* the JWT flow of on_message is entered
JwtFlowEntered(m, hdr, handler) == ~HeaderSupplies(m, hdr) \/ ~HeaderPathReturns(handler)

\* on_message(context, call_next): hdr is the user-id header, token the
\* bearer token of the Authorization header, handler what call_next does each
\* time it is awaited; ctx_* is the context when on_message is left
OnMessage(hdr, token, answer, handler) ==
    LET base == [NoLast EXCEPT !.op = "on_message", !.hdr = hdr, !.bearer = token,
                               !.handler = handler]
        v == verify_token(mw, token, now, answer)
        byHeader == IF HeaderSupplies(mw, hdr)
                    THEN [base EXCEPT !.ctx_set = TRUE, !.ctx_user_id = hdr,
                                      !.ctx_auth = "header", !.next = TRUE, !.calls = 1]
                    ELSE base
        called == [byHeader EXCEPT !.next = TRUE, !.calls = @ + 1,
                                   !.raised = (handler = "raises")]
    IN  IF ~JwtFlowEntered(mw, hdr, handler)
        THEN /\ last' = byHeader
             /\ UNCHANGED <<store, now, keys, mw, issued, procs>>
        ELSE IF token.form = "none"
        THEN /\ last' = called
             /\ UNCHANGED <<store, now, keys, mw, issued, procs>>
        ELSE /\ last' = [called EXCEPT
                            !.verified = v.verified, !.claims = v.claims,
                            !.err = v.err, !.fetches = v.fetches,
                            !.answer = answer, !.jwks = v.jwks,
                            !.ctx_set = PublishesPayload(v) \/ @,
                            !.ctx_user_id = IF PublishesPayload(v) THEN token.sub ELSE @,
                            !.ctx_auth = IF PublishesPayload(v) THEN "jwt" ELSE @]
             /\ mw' = v.mw
             /\ UNCHANGED <<store, now, keys, issued, procs>>

\* verify_token(token) called on its own
VerifyToken(token, answer) ==
    LET v == verify_token(mw, token, now, answer) IN
    /\ last' = [NoLast EXCEPT !.op = "verify_token", !.bearer = token,
                              !.verified = v.verified, !.claims = v.claims,
                              !.err = v.err, !.fetches = v.fetches,
                              !.answer = answer, !.jwks = v.jwks]
    /\ mw' = v.mw
    /\ UNCHANGED <<store, now, keys, issued, procs>>

\* _fetch_jwks() called on its own
FetchJwks(answer) ==
    LET f == _fetch_jwks(mw, now, answer) IN
    /\ last' = [NoLast EXCEPT !.op = "fetch_jwks", !.fetches = f.fetches,
                              !.answer = answer, !.jwks = f.jwks]
    /\ mw' = f.mw
    /\ UNCHANGED <<store, now, keys, issued, procs>>

\* bearer tokens: who signed, with which header, and which claims
ExpLater == time_time(0) + 4 * JwksTtlSeconds

TokenHeads ==
    {<<"HS256", Absent, "s1">>, <<"HS256", Absent, "s2">>, <<"HS256", "kid1", "s1">>,
     <<"RS256", "kid1", "rsa1">>, <<"RS256", Absent, "rsa1">>,
     <<"RS256", "kid9", "rsa1">>, <<"RS256", "kid1", "rsa2">>}

TokenAudiences == {<<"iss1", "aud1">>, <<"iss2", "aud1">>, <<"iss1", "aud2">>,
                   <<Absent, Absent>>}

Tokens ==
    {[NoToken EXCEPT !.form = "jwt", !.alg = h[1], !.kid = h[2], !.sig = h[3],
                     !.exp = e, !.iss = c[1], !.aud = c[2], !.sub = <<"u1">>]
        : h \in TokenHeads, c \in TokenAudiences, e \in {time_time(0), ExpLater}}
    \cup {[NoToken EXCEPT !.form = "garbage"]}

\* the bearer tokens of the requests on_message is given: none, not a JWT,
\* and JWTs signed with the shared secret or with the private key of kid1
MessageTokens ==
    {NoToken, [NoToken EXCEPT !.form = "garbage"]}
        \cup {tk \in Tokens : /\ <<tk.alg, tk.kid, tk.sig>> \in
                                    {<<"HS256", Absent, "s1">>, <<"RS256", "kid1", "rsa1">>}
                               /\ <<tk.iss, tk.aud>> = <<"iss1", "aud1">>}

\* answers to a GET of the JWKS URL
JwksAnswers ==
    {[kind |-> "fail", keys |-> {}], [kind |-> "other", keys |-> {}],
     [kind |-> "dict", keys |-> {Jwk("kid1", "rsa1")}],
     [kind |-> "list", keys |-> {Jwk("kid1", "rsa1"), Jwk("kid2", "rsa2")}]}

\* what awaiting call_next does
Handlers == {"returns", "raises"}

\* the user-id header: not sent, empty, or naming an identity
UserIdHeaders == {NoSeq, <<"">>, <<"u2">>}

(* The verifier and the identity boundary under every configuration. *)
InitVerify ==
    /\ store = {}
    /\ issued = {}
    /\ procs = NoProcs
    /\ now = 0
    /\ keys = <<>>
    /\ last = NoLast
    /\ \E secret_key \in {Absent, "s1", JwksUrl}, issuer \in {Absent, "iss1"},
          audience \in {Absent, "aud1"}, jwks_url \in {Absent, JwksUrl},
          allow \in {Absent, "True", "False"}, env_allow \in {"false", "true"} :
          mw = JWTAuthMiddleware(secret_key, issuer, audience, jwks_url, allow,
                                 Absent, env_allow)

NextVerify ==
    \/ \E h \in UserIdHeaders, tk \in MessageTokens, handler \in Handlers :
          \E a \in (IF JwtFlowEntered(mw, h, handler) /\ JwksGetSent(mw, tk, now)
                    THEN JwksAnswers ELSE {NoAnswer}) :
             OnMessage(h, tk, a, handler)
    \/ \E tk \in Tokens :
          \E a \in (IF JwksGetSent(mw, tk, now) THEN JwksAnswers ELSE {NoAnswer}) :
             VerifyToken(tk, a)

SpecVerify == InitVerify /\ [][NextVerify]_vars

(* The JWKS cache as time passes and the endpoint fails and recovers. *)
InitJwks ==
    /\ store = {}
    /\ issued = {}
    /\ procs = NoProcs
    /\ now = 0
    /\ keys = <<>>
    /\ last = NoLast
    /\ \E secret_key \in {Absent, "s1"} :
          mw = JWTAuthMiddleware(secret_key, Absent, Absent, JwksUrl, Absent,
                                 Absent, "false")

JwksTokens ==
    {[NoToken EXCEPT !.form = "jwt", !.alg = "RS256", !.kid = k[1], !.sig = k[2],
                     !.exp = ExpLater, !.sub = <<"u1">>]
        : k \in {<<"kid1", "rsa1">>, <<"kid2", "rsa2">>}}

JwksRotation ==
    {[kind |-> "fail", keys |-> {}], [kind |-> "other", keys |-> {}],
     [kind |-> "dict", keys |-> {Jwk("kid1", "rsa1")}],
     [kind |-> "dict", keys |-> {Jwk("kid2", "rsa2")}]}

NextJwks ==
    \/ \E tk \in JwksTokens :
          \E a \in (IF JwksGetSent(mw, tk, now) THEN JwksRotation ELSE {NoAnswer}) :
             VerifyToken(tk, a)
    \/ \E a \in (IF ~CacheFresh(mw, now) THEN JwksRotation ELSE {NoAnswer}) :
          FetchJwks(a)
    \/ \E d \in {1, JwksTtlSeconds} : Tick(d)

SpecJwks == InitJwks /\ [][NextJwks]_vars

(* Slack records and their reads while the key ring is rotated. *)
NextRotate ==
    \/ \E i \in Ids : SlackConsent(i, SlackGrants({"xoxb-1"}, {"U1"}, {AbsentInt}))
    \/ \E r \in StoreRings : RotateKeys(r)
    \/ \E i \in Ids : ReadToken(i, "slack", TRUE)
    \/ \E i \in Ids : SlackFromContext(i)

SpecRotate == Init /\ [][NextRotate]_vars

-----------------------------------------------------------------------------
(* Requests in flight at the same time.  A coroutine gives way to another  *)
(* only where it awaits; a session's statements reach the database when    *)
(* they are executed, and a commit is one step of the database.            *)

\* SessionUpdate that writes the access token into the row as it is now
SessionUpdate_FieldWise(st, client_id, typ, token_json, at) ==
    LET old == TheRow(st, client_id, typ).token_json IN
    Upsert(st, client_id, typ,
           [old EXCEPT !.text.access_token = token_json.text.access_token], at)

\* commit of a session whose loaded OAuthToken got a new token_json and
\* stored_at: UPDATE oauth_tokens SET ... WHERE the primary key matches
SessionUpdate(st, client_id, typ, token_json, at) ==
    Upsert(st, client_id, typ, token_json, at)

\* commit of a session to which a new OAuthToken was added: the INSERT fails
\* on the primary key (client_id, integration_type) when the row exists
SessionInsert(st, client_id, typ, token_json, at) ==
    IF HasRow(st, client_id, typ) THEN [ok |-> FALSE, store |-> st]
    ELSE [ok |-> TRUE,
          store |-> st \cup {[client_id |-> client_id, integration_type |-> typ,
                              token_json |-> token_json, stored_at |-> at]}]

\* session.commit() after `if existing: ... else: session.add(...)`
SessionCommit(st, found, client_id, typ, token_json, at) ==
    IF found THEN [ok |-> TRUE, store |-> SessionUpdate(st, client_id, typ, token_json, at)]
    ELSE SessionInsert(st, client_id, typ, token_json, at)

Idle(p) == procs[p].pc = "idle"

\* is_authenticated up to the POST of _refresh_token: the SELECT of
\* _get_oauth_token begins the session's transaction, which nothing ends
\* before `await client.post`
RefreshRead(p, id) ==
    LET base == [NoProc EXCEPT !.op = "refresh", !.id = id, !.txn = TRUE,
                               !.found = HasRow(store, id, "google")]
        row == TheRow(store, id, "google")
        ended(r) == [base EXCEPT !.pc = "done", !.result = r]
    IN  /\ Idle(p)
        /\ procs' = [procs EXCEPT ![p] =
              IF ~HasRow(store, id, "google") THEN ended("false")
              ELSE IF row.token_json.enc THEN ended("raise")
              ELSE IF ~_is_token_expired(row.token_json.text, row.stored_at, now)
                   THEN [ended("true") EXCEPT !.loaded = row.token_json]
              ELSE IF ~Truthy(row.token_json.text.refresh_token)
                   THEN [ended("false") EXCEPT !.loaded = row.token_json]
              ELSE [base EXCEPT !.pc = "awaiting_post", !.loaded = row.token_json]]
        /\ last' = [NoLast EXCEPT !.op = "refresh_read", !.id = id, !.typ = "google",
                                  !.proc = p]
        /\ UNCHANGED <<store, now, keys, mw, issued>>

\* _refresh_token from the answer of the POST to the commit, lines 66-74
RefreshAnswer(p, resp) ==
    LET me == procs[p]
        token_json == PlainJson(DictUpdate(me.loaded.text, GoogleTokenData(resp)))
        ok == GoogleResponseOk(resp)
    IN  /\ me.op = "refresh" /\ me.pc = "awaiting_post"
        /\ procs' = [procs EXCEPT ![p] =
              IF ok THEN [me EXCEPT !.pc = "done", !.resp = resp, !.result = "true",
                                    !.token_json = token_json, !.txn = FALSE]
              ELSE [me EXCEPT !.pc = "done", !.resp = resp, !.result = "false"]]
        /\ store' = IF ok THEN SessionUpdate(store, me.id, "google", token_json, now)
                    ELSE store
        /\ last' = [NoLast EXCEPT !.op = "refresh_done", !.id = me.id, !.typ = "google",
                                  !.proc = p, !.posts = 1, !.resp = resp,
                                  !.writes = IF ok THEN 1 ELSE 0,
                                  !.ct = IF ok THEN token_json ELSE NoString]
        /\ UNCHANGED <<now, keys, mw, issued>>

\* exchange_code_for_token up to its POST, lines 111-123: the session has run
\* no statement yet
CallbackPost(p, id) ==
    /\ Idle(p)
    /\ procs' = [procs EXCEPT ![p] = [NoProc EXCEPT !.op = "callback", !.id = id,
                                                    !.pc = "awaiting_post"]]
    /\ last' = [NoLast EXCEPT !.op = "callback_post", !.id = id, !.typ = "google",
                              !.proc = p]
    /\ UNCHANGED <<store, now, keys, mw, issued>>

\* a refresh for the identity has loaded the record and not yet committed
RefreshInFlight(id) ==
    \E q \in Procs : /\ procs[q].op = "refresh" /\ procs[q].pc = "awaiting_post"
                     /\ procs[q].id = id

\* exchange_code_for_token from the answer of the POST to the commit, lines
\* 124-143: nothing is awaited between the SELECT and the commit
CallbackAnswer(p, resp) ==
    LET me == procs[p]
        token_json == PlainJson(GoogleTokenData(resp))
        ok == GoogleResponseOk(resp)
        c == SessionCommit(store, HasRow(store, me.id, "google"), me.id, "google",
                           token_json, now)
    IN  /\ me.op = "callback" /\ me.pc = "awaiting_post"
        /\ procs' = [procs EXCEPT ![p] =
              IF ok THEN [me EXCEPT !.pc = "done", !.resp = resp, !.result = "stored",
                                    !.token_json = token_json,
                                    !.data = GoogleTokenData(resp),
                                    !.raced = RefreshInFlight(me.id)]
              ELSE [me EXCEPT !.pc = "done", !.resp = resp, !.result = "failed"]]
        /\ store' = IF ok THEN c.store ELSE store
        /\ last' = [NoLast EXCEPT !.op = "callback_done", !.id = me.id, !.typ = "google",
                                  !.proc = p, !.posts = 1, !.resp = resp,
                                  !.writes = IF ok THEN 1 ELSE 0,
                                  !.ct = IF ok THEN token_json ELSE NoString]
        /\ UNCHANGED <<now, keys, mw, issued>>

\* the record a Google consent flow left for u1 at time 0, valid for a second
ConsentedRow ==
    [client_id |-> <<"u1">>, integration_type |-> "google",
     token_json |-> PlainJson([NoPayload EXCEPT !.access_token = "ya-1",
                                                !.refresh_token = "rt-1",
                                                !.expires_in = 1]),
     stored_at |-> 0]

(* Refreshes and callbacks for one identity, overlapping in any way. *)
InitRefreshRace ==
    /\ store \in {{}, {ConsentedRow}}
    /\ now = 0
    /\ keys = <<>>
    /\ last = NoLast
    /\ mw = NoMiddleware
    /\ issued = {}
    /\ procs = NoProcs

RefreshGrants == GoogleGrants({"ya-2", "ya-3"}, {Absent, "rt-2"}, {AbsentInt})

NextRefreshRace ==
    \/ \E p \in Procs : RefreshRead(p, <<"u1">>)
    \/ \E p \in Procs : \E r \in RefreshGrants \cup GoogleRefusals : RefreshAnswer(p, r)
    \/ \E p \in Procs : CallbackPost(p, <<"u1">>)
    \/ \E p \in Procs :
          \E r \in GoogleGrants({"ya-9"}, {"rt-9"}, {1}) \cup GoogleRefusals :
             CallbackAnswer(p, r)
    \/ Tick(1)

SpecRefreshRace == InitRefreshRace /\ [][NextRefreshRace]_vars

\* write_token up to its SELECT, lines 28-34, in one worker of the gateway
WriteSelect(p, client_id, token_data, typ) ==
    /\ Idle(p)
    /\ procs' = [procs EXCEPT ![p] =
          [NoProc EXCEPT !.op = "write_token", !.id = client_id, !.result = typ,
                         !.pc = "selected", !.txn = TRUE, !.data = token_data,
                         !.found = HasRow(store, client_id, typ)]]
    /\ last' = [NoLast EXCEPT !.op = "write_select", !.id = client_id, !.typ = typ,
                              !.proc = p, !.data = token_data,
                              !.existing = HasRow(store, client_id, typ)]
    /\ UNCHANGED <<store, now, keys, mw, issued>>

\* write_token from line 36 to the end: the IntegrityError of the commit is a
\* SQLAlchemyError, logged and raised again
WriteCommit(p) ==
    LET me == procs[p]
        typ == me.result
        c == SessionCommit(store, me.found, me.id, typ, TokenJson(me.data, keys), now)
        written == ~WriteRaises(keys) /\ c.ok
    IN  /\ me.op = "write_token" /\ me.pc = "selected"
        /\ procs' = [procs EXCEPT ![p] =
              [me EXCEPT !.pc = IF written THEN "done" ELSE "raised", !.txn = FALSE,
                         !.token_json = IF written THEN TokenJson(me.data, keys)
                                        ELSE NoString]]
        /\ store' = IF written THEN c.store ELSE store
        /\ last' = [NoLast EXCEPT !.op = "write_commit", !.id = me.id, !.typ = typ,
                                  !.proc = p, !.data = me.data, !.raised = ~written,
                                  !.writes = IF written THEN 1 ELSE 0]
        /\ UNCHANGED <<now, keys, mw, issued>>

(* write_token calls of two workers, overlapping in any way. *)
NextWriteRace ==
    \/ \E p \in Procs, k \in StorePairs, t \in TokenDatas : WriteSelect(p, k[1], t, k[2])
    \/ \E p \in Procs : WriteCommit(p)

SpecWriteRace == Init /\ [][NextWriteRace]_vars

\* _fetch_jwks up to its GET, lines 70-81
FetchStart(p) ==
    /\ Idle(p)
    /\ procs' = [procs EXCEPT ![p] =
          IF CacheFresh(mw, now)
          THEN [NoProc EXCEPT !.op = "fetch_jwks", !.pc = "done", !.started = now,
                              !.fetched = mw.jwks_cache, !.result = "cached"]
          ELSE [NoProc EXCEPT !.op = "fetch_jwks", !.pc = "awaiting_get",
                              !.started = now]]
    /\ last' = [NoLast EXCEPT !.op = "fetch_start", !.proc = p]
    /\ UNCHANGED <<store, now, keys, mw, issued>>

\* _fetch_jwks from the answer of its GET to its return, lines 82-97
FetchAnswer(p, answer) ==
    LET me == procs[p]
        after == JwksAfterAnswer(mw, me.started, answer)
    IN  /\ me.op = "fetch_jwks" /\ me.pc = "awaiting_get"
        /\ mw' = after
        /\ procs' = [procs EXCEPT ![p] =
              [me EXCEPT !.pc = "done", !.answer = answer,
                         !.fetched = after.jwks_cache,
                         !.result = IF answer.kind = "fail" THEN "failed" ELSE "fetched"]]
        /\ last' = [NoLast EXCEPT !.op = "fetch_done", !.proc = p, !.fetches = 1,
                                  !.answer = answer, !.jwks = after.jwks_cache]
        /\ UNCHANGED <<store, now, keys, issued>>

\* the cache of a verifier that starts, and of one whose last fetch succeeded
\* a TTL before the calls arrive
StaleCache ==
    [NoMiddleware EXCEPT !.jwks_url = JwksUrl,
                         !.jwks_cache = [set |-> TRUE, keys |-> {Jwk("kid1", "rsa1")}],
                         !.jwks_last_fetch = time_time(0) - JwksTtlSeconds,
                         !.fetched_ok = TRUE]

InitialCaches == {[NoMiddleware EXCEPT !.jwks_url = JwksUrl], StaleCache}

(* _fetch_jwks calls of requests in flight at the same time. *)
InitJwksRace ==
    /\ store = {}
    /\ now = 0
    /\ keys = <<>>
    /\ last = NoLast
    /\ mw \in InitialCaches
    /\ issued = {}
    /\ procs = NoProcs

RaceAnswers ==
    {[kind |-> "fail", keys |-> {}],
     [kind |-> "dict", keys |-> {Jwk("kid1", "rsa1")}],
     [kind |-> "dict", keys |-> {Jwk("kid2", "rsa2")}],
     [kind |-> "list", keys |-> {Jwk("kid1", "rsa1"), Jwk("kid2", "rsa2")}]}

NextJwksRace ==
    \/ \E p \in Procs : FetchStart(p)
    \/ \E p \in Procs : \E a \in RaceAnswers : FetchAnswer(p, a)
    \/ Tick(1)

SpecJwksRace == InitJwksRace /\ [][NextJwksRace]_vars

-----------------------------------------------------------------------------
(* Properties *)

IsCallback(l) == l.op \in {"slack_callback", "google_callback"}

\* every string a response body carries, the echoed provider answer included
BodyStrings(b) ==
    (Range(b.error) \cup Range(b.details) \cup Range(b.message)
        \cup Range(b.jwt_client_id)
        \cup {b.slack_user_id, b.echo.error, b.echo.access_token,
               b.echo.refresh_token, b.echo.user_id}) \ {Absent}

\* the consent URL's state parameter carries the identity
EmbedsIdentity(url_state, id) ==
    url_state /= NoSeq /\ (url_state = id \/ url_state = <<"client_id">> \o id)

\* the validity window of a stored record has elapsed at time t: for Google
\* stored_at plus expires_in, 3600 s when the provider gave none; for Slack
\* stored_at plus the lifetime the provider gave (the callback keeps it as
\* expires_at), and never when it gave none
ValidityElapsed(typ, payload, stored_at, t) ==
    IF typ = "slack"
    THEN payload.expires_at /= AbsentInt /\ t >= stored_at + payload.expires_at
    ELSE t >= stored_at + (IF payload.expires_in /= AbsentInt THEN payload.expires_in
                           ELSE DefaultExpiresIn)

\* the payload stored for (id, typ), as the owning session reads it
StoredPayload(id, typ) == PayloadOf(TheRow(store, id, typ).token_json)

\* C1: for an identity with no stored record, session resolution answers
\* authorization-required with a consent URL whose state embeds the identity,
\* for Slack (from_context) and for Google (_get_google_service, here for a
\* request whose context holds a database session).
C1_NoRecordRequiresAuth ==
    (/\ last.op \in {"slack_from_context", "get_google_service"}
     /\ last.result /= "error"
     /\ ~HasRow(store, last.id, last.typ))
    => (last.result = "requires_auth" /\ EmbedsIdentity(last.url_state, last.id))

\* C2: resolution for an identity whose stored token is present and not expired
\* returns the stored access token unchanged, and no resolution writes to the
\* store except one that refreshed successfully.
C2_ValidTokenReturnedUnchanged ==
    /\ (/\ last.op \in {"slack_from_context", "get_google_service"}
        /\ last.result /= "error"
        /\ HasRow(store, last.id, last.typ)
        /\ Truthy(StoredPayload(last.id, last.typ).access_token)
        /\ ~ValidityElapsed(last.typ, StoredPayload(last.id, last.typ),
                            TheRow(store, last.id, last.typ).stored_at, now))
       => (/\ last.result = "service"
           /\ last.token = StoredPayload(last.id, last.typ).access_token)
    /\ (/\ last.op \in {"slack_from_context", "get_google_service",
                         "google_is_authenticated"}
        /\ ~(last.posts = 1 /\ GoogleResponseOk(last.resp) /\ last.db_ok))
       => last.writes = 0

\* the refresh POST was answered with a grant and the commit went through
RefreshSucceeded(l) ==
    /\ l.op = "google_is_authenticated"
    /\ l.posts = 1
    /\ GoogleResponseOk(l.resp)
    /\ l.db_ok

\* C3: a Google resolution whose refresh exchange succeeds performs exactly one
\* store write: only the identity's record changes, it then holds the answer's
\* access token and a newer stored_at, and its refresh token is the answer's if
\* the answer holds one and the old one otherwise.
C3_RefreshWritesOnce ==
    [][RefreshSucceeded(last') =>
        LET id == last'.id
            old == TheRow(store, id, "google")
            new == TheRow(store', id, "google")
        IN  /\ last'.result = "true"
            /\ last'.writes = 1
            /\ Cardinality(Rows(store', id, "google")) = 1
            /\ store' \ {new} = store \ {old}
            /\ new.token_json.text.access_token = last'.resp.access_token
            /\ new.stored_at > old.stored_at
            /\ new.token_json.text.refresh_token =
                   IF last'.resp.refresh_token /= Absent
                   THEN last'.resp.refresh_token
                   ELSE old.token_json.text.refresh_token]_vars

\* C3 witness: a refresh answered without a refresh token has rewritten the
\* record, which holds the new access token and still the old refresh token
C3_Witness ==
    /\ RefreshSucceeded(last)
    /\ last.resp.refresh_token = Absent
    /\ last.resp.access_token = "ya-2"
    /\ StoredPayload(last.id, "google").access_token = "ya-2"
    /\ StoredPayload(last.id, "google").refresh_token = "rt-1"
    /\ TheRow(store, last.id, "google").stored_at = now
    /\ now > 0

\* C4: when the stored token is expired and holds no refresh token, or the
\* refresh exchange fails, resolution answers authorization-required, writes
\* nothing and sends at most one refresh request.
C4_ExpiredWithoutRefreshRequiresAuth ==
    /\ (/\ last.op = "get_google_service"
        /\ last.result /= "error"
        /\ HasRow(store, last.id, "google")
        /\ _is_token_expired(StoredPayload(last.id, "google"),
                             TheRow(store, last.id, "google").stored_at, now)
        /\ ~Truthy(StoredPayload(last.id, "google").refresh_token))
       => (last.result = "requires_auth" /\ last.writes = 0 /\ last.posts = 0)
    /\ (/\ last.op = "google_is_authenticated"
        /\ last.posts = 1
        /\ ~GoogleResponseOk(last.resp))
       => (last.result = "false" /\ last.writes = 0)
    /\ last.op \in {"get_google_service", "google_is_authenticated"}
       => last.posts <= 1

\* C5: session resolution never returns an access token whose validity window
\* has elapsed, for the Slack and for the Google session.
C5_NeverReturnsExpiredToken ==
    (/\ last.op \in {"slack_from_context", "get_google_service"}
     /\ last.result = "service"
     /\ Truthy(last.token))
    => ~ValidityElapsed(last.typ, StoredPayload(last.id, last.typ),
                        TheRow(store, last.id, last.typ).stored_at, now)

\* the provider granted the code: an ok answer that holds an access token
ExchangeGranted(l) ==
    /\ l.posts = 1
    /\ l.resp.kind = "json" /\ l.resp.http < 400 /\ l.resp.ok
    /\ Truthy(l.resp.access_token)

\* the identity a callback takes from its state parameter
StateIdentity(l) ==
    IF l.op = "slack_callback" THEN <<SlackStateClientId(l.state)>> ELSE l.state

ProviderType(l) == IF l.op = "slack_callback" THEN "slack" ELSE "google"

C7_ErrorParameterFails ==
    [][(IsCallback(last') /\ Truthy(last'.error)) =>
        /\ last'.status = 400
        /\ last'.error \in BodyStrings(last'.body)
        /\ last'.posts = 0
        /\ last'.writes = 0
        /\ store' = store]_vars

\* C7 witness: a Google callback with error, code and state all present
C7_Witness ==
    /\ last.op = "google_callback"
    /\ last.error = "access_denied"
    /\ last.code = "c1"
    /\ last.state \in Ids
    /\ last.status = 400

\* C8: a callback without error and with code or state missing is answered 400,
\* sends no exchange and writes nothing, and the answer to a request that lacks
\* only the code differs from the answer to one that lacks only the state.
C8_MissingParameterNamed ==
    (IsCallback(last) /\ ~Truthy(last.error)) =>
        /\ (~Truthy(last.code) \/ last.state = NoSeq)
               => (last.status = 400 /\ last.posts = 0 /\ last.writes = 0)
        /\ (last.op = "slack_callback" /\ ~Truthy(last.code)
                /\ Truthy(SlackStateClientId(last.state)))
               => last.body /= SlackCallbackOutcome("c1", NoSeq, Absent, NoResp, TRUE).body
        /\ (last.op = "google_callback" /\ ~Truthy(last.code) /\ last.state \in Ids)
               => last.body /= GoogleCallbackOutcome("c1", NoSeq, Absent, TRUE, NoResp, TRUE).body

\* C9: no response body of a callback holds the access token the exchange
\* returned.
C9_TokenNeverEchoed ==
    (IsCallback(last) /\ last.posts = 1 /\ Truthy(last.resp.access_token))
    => last.resp.access_token \notin BodyStrings(last.body)

\* C10: a failed code exchange (HTTP error status, malformed JSON body, or an
\* ok:false answer) is answered 400 with the provider's error string in the body.
C10_FailedExchangeIs400 ==
    (/\ IsCallback(last)
     /\ last.posts = 1
     /\ \/ last.resp.kind = "badjson"
        \/ last.resp.kind = "json" /\ (last.resp.http >= 400 \/ ~last.resp.ok))
    => /\ last.status = 400
       /\ last.resp.error /= Absent => last.resp.error \in BodyStrings(last.body)

\* C11: the identity under which a callback stores the token is the identity
\* whose consent URL carried the state parameter the callback received: the
\* state built for the storing key is the state that came back.
C11_StateNamesInitiator ==
    (IsCallback(last) /\ last.writes = 1)
    => (IF last.op = "slack_callback" THEN SlackOAuthState(last.key)
        ELSE GoogleOAuthState(last.key)) = last.state

\* C14: with a key ring configured, every record in the store is an "enc:v1:"
\* envelope, whichever writer stored it.
C14_EveryRecordIsEnvelope ==
    keys /= <<>> => \A r \in store : r.token_json.enc

\* C12: a read_token that directly follows a write_token that went through,
\* for the same identity and integration type, returns the token_data that
\* was written, with encryption keys configured and with none.
C12_WriteThenReadReturnsData ==
    [][(/\ last.op = "write_token" /\ last.writes = 1
        /\ last'.op = "read_token" /\ last'.db_ok
        /\ last'.id = last.id /\ last'.typ = last.typ)
       => (last'.found /\ last'.data = last.data)]_vars

\* a read returned the dict held by an envelope written under a rotated ring
C12_Witness ==
    /\ last.op = "read_token" /\ last.found
    /\ last.ring = <<"k2", "k1">>
    /\ TheRow(store, last.id, last.typ).token_json.enc
    /\ last.data = PayloadOf(TheRow(store, last.id, last.typ).token_json)
    /\ last.data \in TokenDatas

\* the step is a write_token for (id, typ) that went through
WroteTo(l, id, typ) == l.op = "write_token" /\ l.writes = 1 /\ l.id = id /\ l.typ = typ

\* C13: the store never holds two records for one (client_id,
\* integration_type) pair; right after a write_token that went through,
\* read_token for its pair returns the written token_data; and what
\* read_token returns for a pair changes only by a write to that pair (or a
\* change of the key ring).
C13_OneRecordLatestWins ==
    [][/\ \A i \in Ids, typ \in IntegrationTypes :
            /\ Cardinality(Rows(store', i, typ)) <= 1
            /\ WroteTo(last', i, typ)
                  => read_token(store', keys', i, typ) = <<TRUE, last'.data>>
            /\ (~WroteTo(last', i, typ) /\ keys' = keys)
                  => read_token(store', keys', i, typ) = read_token(store, keys, i, typ)
     ]_vars

\* a write updated the record an earlier write had stored for its pair
C13_Witness ==
    /\ last.op = "write_token" /\ last.writes = 1 /\ last.existing
    /\ Cardinality(Rows(store, last.id, last.typ)) = 1
    /\ PayloadOf(TheRow(store, last.id, last.typ).token_json) = last.data
    /\ Cardinality(store) = 3

\* the last step decrypted, under the ring now configured, the value
\* encrypt_text produced under the ring last.wring
DecryptedOwn(l) ==
    l.op = "decrypt_text" /\ l.wring /= <<>> /\ ~l.raised /\ l.arg = l.ct

\* C15: for a non-empty ring of valid keys, decrypting what encrypt_text
\* produced under that ring, with the same ring, gives (plaintext, True).
C15_RoundTrip ==
    (DecryptedOwn(last) /\ AllValid(last.wring) /\ last.ring = last.wring)
    => last.dec = <<last.plain, TRUE, TRUE>>

\* a plaintext that itself starts with the prefix went round under two keys
C15_Witness ==
    /\ DecryptedOwn(last) /\ last.ring = last.wring /\ Len(last.ring) = 2
    /\ AllValid(last.ring) /\ last.ring[1] /= last.ring[2]
    /\ last.plain.enc /\ last.dec = <<last.plain, TRUE, TRUE>>

\* C16 as stated: a value encrypted under [k2, k1] decrypts under [k1] alone,
\* and under [k3] alone gives (None, True).
C16_OldKeyAloneDecrypts ==
    (DecryptedOwn(last) /\ last.wring = <<"k2", "k1">>)
    => /\ last.ring = <<"k1">> => last.dec = <<last.plain, TRUE, TRUE>>
       /\ last.ring = <<"k3">> => last.dec = <<NoPayload, FALSE, TRUE>>

\* C16, amended: a value encrypted under [k2, k1] decrypts under [k2] alone;
\* under [k1] alone and under [k3] alone it gives (None, True).
C16_NewestKeyAloneDecrypts ==
    (DecryptedOwn(last) /\ last.wring = <<"k2", "k1">>)
    => /\ last.ring = <<"k2">> => last.dec = <<last.plain, TRUE, TRUE>>
       /\ last.ring \in {<<"k1">>, <<"k3">>} => last.dec = <<NoPayload, FALSE, TRUE>>

\* the value encrypted under [k2, k1] was refused under [k1] alone
C16_Witness ==
    /\ DecryptedOwn(last) /\ last.wring = <<"k2", "k1">> /\ last.ring = <<"k1">>
    /\ last.dec = <<NoPayload, FALSE, TRUE>>

\* C17: encrypt_text encrypts under the first usable key of the ring, and
\* decrypt_text succeeds whenever that key is anywhere in the (usable) ring
\* it is given: [k1] then [k2, k1], and [k2, k1] then [k2], among others.
C17_FirstKeyEncryptsAnyKeyDecrypts ==
    /\ (last.op = "encrypt_text" /\ ~last.raised)
          => (last.ct.enc /\ last.ct.key = clean_keys(last.ring)[1]
                /\ last.ct.text = last.plain)
    /\ (/\ DecryptedOwn(last) /\ _build_fernet(last.ring) /= <<>>
        /\ \E i \in DOMAIN last.ring : last.ring[i] = clean_keys(last.wring)[1])
          => last.dec = <<last.plain, TRUE, TRUE>>

\* a value written under [k1] was read after the rotation to [k2, k1]
C17_Witness ==
    /\ DecryptedOwn(last) /\ last.wring = <<"k1">> /\ last.ring = <<"k2", "k1">>
    /\ last.ct.key = "k1" /\ last.dec = <<last.plain, TRUE, TRUE>>

\* C18: for a prefixed value, decrypt_text answers (None, True) when no
\* usable key is configured or no configured key decrypts it, and in no case
\* hands the value itself back or reports it as not encrypted.
C18_UndecryptableIsNoneTrue ==
    (last.op = "decrypt_text" /\ last.arg.enc)
    => /\ (_build_fernet(last.ring) = <<>>
             \/ \A i \in DOMAIN last.ring : last.ring[i] /= last.arg.key)
          => last.dec = <<NoPayload, FALSE, TRUE>>
       /\ last.dec[1] /= last.arg
       /\ last.dec[3]

\* a token made under k1 was refused with no key configured
C18_Witness ==
    /\ last.op = "decrypt_text" /\ last.arg.enc /\ last.arg.key = "k1"
    /\ last.ring = <<>> /\ last.dec = <<NoPayload, FALSE, TRUE>>

\* C19: encrypt_text given a ring with no usable key raises and returns no
\* plaintext; a write_token under a configured key list with no usable key
\* raises that error and leaves the store as it was; and a write_token that
\* goes through under a configured key list stores an envelope.
C19_NoUsableKeyAbortsWrite ==
    [][/\ (last'.op = "encrypt_text" /\ _build_fernet(last'.ring) = <<>>)
            => (last'.raised /\ last'.ct = ValueError /\ last'.ct /= last'.plain)
       /\ (/\ last'.op = "write_token" /\ last'.db_ok
           /\ last'.ring /= <<>> /\ _build_fernet(last'.ring) = <<>>)
            => (last'.raised /\ last'.ct = ValueError /\ store' = store)
       /\ (last'.op = "write_token" /\ last'.ring /= <<>> /\ last'.writes = 1)
            => TheRow(store', last'.id, last'.typ).token_json.enc
     ]_vars

\* a write under a key list holding only a blank entry was aborted and the
\* record of its pair is still the earlier one
C19_Witness ==
    /\ last.op = "write_token" /\ last.ring = <<BlankKey>> /\ last.db_ok
    /\ last.raised /\ last.ct = ValueError /\ last.existing
    /\ PayloadOf(TheRow(store, last.id, last.typ).token_json) /= last.data

\* C20: decrypt_text hands a string without the prefix back as (s, False)
\* under every key ring, and read_token returns the dict of a record stored
\* as plaintext JSON whatever the key ring now is.
C20_PlaintextPassesThrough ==
    /\ (last.op = "decrypt_text" /\ ~last.arg.enc)
          => last.dec = <<last.arg, TRUE, FALSE>>
    /\ (/\ last.op = "read_token" /\ last.db_ok
        /\ HasRow(store, last.id, last.typ)
        /\ ~TheRow(store, last.id, last.typ).token_json.enc)
          => (last.found
              /\ last.data = json_loads(TheRow(store, last.id, last.typ).token_json))

\* a record written before any key was configured was read under [k2, k1]
C20_Witness ==
    /\ last.op = "read_token" /\ last.found /\ last.ring = <<"k2", "k1">>
    /\ ~TheRow(store, last.id, last.typ).token_json.enc
    /\ last.data \in TokenDatas

\* the record of (id, typ) is an envelope that no key of the ring decrypts
Undecryptable(st, ring, id, typ) ==
    /\ HasRow(st, id, typ)
    /\ TheRow(st, id, typ).token_json.enc
    /\ ~decrypt_text(TheRow(st, id, typ).token_json, ring)[2]

\* C21: when the Slack record of an identity is an envelope that no
\* configured key decrypts, read_token answers None without raising, Slack
\* session resolution answers authorization-required with a consent URL for
\* that identity, and neither changes the store.
C21_UndecryptableIsNoCredential ==
    [][(/\ last'.op \in {"read_token", "slack_from_context"}
        /\ Undecryptable(store, keys, last'.id, "slack"))
       => /\ store' = store
          /\ ~last'.raised
          /\ last'.op = "read_token" => (~last'.found /\ last'.data = NoPayload)
          /\ last'.op = "slack_from_context"
                => (last'.result = "requires_auth"
                      /\ last'.url_state = SlackOAuthState(last'.id))]_vars

\* session resolution asked for consent although the record, written under
\* k1, is still in the store: the ring holds no key for it any more
C21_Witness ==
    /\ last.op = "slack_from_context" /\ last.result = "requires_auth"
    /\ Undecryptable(store, keys, last.id, "slack")
    /\ TheRow(store, last.id, "slack").token_json.key = "k1"

\* C22: a storage-layer error during write_token or read_token reaches the
\* caller as an error.
C22_StorageErrorsPropagate ==
    (last.op \in {"write_token", "read_token"} /\ ~last.db_ok) => last.raised

\* verify_token runs in shared-secret mode
SharedSecretMode(m) == ~Truthy(m.jwks_url) /\ Truthy(m.secret_key)

\* the token is signed with the configured secret, is unexpired and matches
\* the issuer and the audience that are configured
MeetsConfiguration(m, tk, t) ==
    /\ tk.form = "jwt" /\ tk.sig = m.secret_key
    /\ (tk.exp = AbsentInt \/ tk.exp > time_time(t))
    /\ (Truthy(m.issuer) => tk.iss = m.issuer)
    /\ (Truthy(m.audience) => tk.aud = m.audience)

\* C23: in shared-secret mode verify_token returns the claim set exactly when
\* the token is signed with the configured secret, is unexpired and matches
\* the configured issuer and audience, and None otherwise.
C23_SharedSecretAcceptsExactly ==
    (last.op = "verify_token" /\ SharedSecretMode(mw))
    => /\ last.verified <=> MeetsConfiguration(mw, last.bearer, now)
       /\ last.verified => last.claims.sub = last.bearer.sub

\* C24: with a JWKS URL configured, a token without kid is rejected without
\* a fetch of the key set, and a token whose kid matches no key of the key
\* set is rejected, also when a shared secret is configured that signed it.
C24_NoKidNoKeyRejected ==
    (last.op = "verify_token" /\ Truthy(mw.jwks_url))
    => /\ ~HasKid(last.bearer) => (~last.verified /\ last.fetches = 0)
       /\ (\A j \in last.jwks.keys : j.kid /= last.bearer.kid) => ~last.verified

\* a token signed with the configured shared secret, without kid, was
\* rejected in JWKS mode and no key set was fetched for it
C24_Witness ==
    /\ last.op = "verify_token" /\ Truthy(mw.jwks_url) /\ mw.secret_key = "s1"
    /\ last.bearer.sig = "s1" /\ last.bearer.kid = Absent
    /\ last.bearer.exp > time_time(now)
    /\ last.bearer.iss = "iss1" /\ last.bearer.aud = "aud1"
    /\ mw.issuer = "iss1" /\ mw.audience = "aud1"
    /\ ~last.verified /\ last.fetches = 0 /\ ~mw.jwks_cache.set

\* C25: verify_token answers a claim set or None for every token and every
\* answer of the JWKS endpoint, and on_message publishes an identity taken
\* from a bearer token only when verify_token returned a claim set, the
\* identity being that claim set's sub.
C25_PublishesOnlyVerifiedSub ==
    /\ (last.op \in {"verify_token", "on_message"} /\ ~last.verified)
          => last.claims = NoClaims
    /\ (last.op = "on_message" /\ last.ctx_set /\ last.ctx_auth /= "header")
          => (last.verified /\ last.ctx_user_id = last.claims.sub)
    /\ (last.op = "on_message" /\ ~last.ctx_set) => last.ctx_user_id = NoSeq

\* the sub of a token verified against a key set fetched for it was published
C25_Witness ==
    /\ last.op = "on_message" /\ last.ctx_set /\ last.ctx_auth = "jwt"
    /\ last.verified /\ last.fetches = 1 /\ last.ctx_user_id = <<"u1">>

\* C26: a request whose bearer token does not verify is answered 401 and
\* call_next is not invoked for it.
C26_InvalidTokenIs401 ==
    (/\ last.op = "on_message" /\ last.bearer.form /= "none"
     /\ last.ctx_auth /= "header" /\ ~last.verified)
    => (last.status = 401 /\ ~last.next)

\* C27: the user-id header supplies the identity exactly when header
\* authentication is enabled and the header has a non-empty value; it is off
\* unless the constructor or the environment turns it on; with it off the
\* identity comes only from a verified bearer token; and a header identity is
\* recorded with auth = "header".
C27_HeaderOnlyWhenEnabled ==
    /\ ~JWTAuthMiddleware(mw.secret_key, mw.issuer, mw.audience, mw.jwks_url,
                          Absent, Absent, "false").allow_user_id_header
    /\ last.op = "on_message"
          => /\ last.ctx_auth = "header"
                   <=> (mw.allow_user_id_header /\ TruthySeq(last.hdr))
             /\ last.ctx_auth = "header"
                   => (last.ctx_set /\ last.ctx_user_id = last.hdr)
             /\ (~mw.allow_user_id_header /\ last.ctx_set)
                   => (last.verified /\ last.ctx_user_id = last.claims.sub)

\* a key of the cached key set signed the token and carries the token's kid
SignedWithCachedKey(cache, token) ==
    \E j \in cache.keys : j.kid = token.kid /\ j.key = token.sig /\ j.kty = "RSA"

\* seconds since the last successful fetch
JwksAge == time_time(now) - mw.jwks_last_fetch

\* C28: _fetch_jwks sends a GET only when no key set was ever fetched or at
\* least TTL seconds (3600 by default) have passed since the last successful
\* fetch; a call within the TTL window after a successful fetch returns the
\* cached key set, sends nothing and leaves the cache alone; and a cache older
\* than the TTL is never returned without a GET being sent first.
C28_FetchOnlyWhenStale ==
    [][last'.op \in {"fetch_jwks", "verify_token"}
          => /\ mw.jwks_ttl_seconds = JwksTtlSeconds
             /\ last'.fetches = 1 => (~mw.fetched_ok \/ JwksAge >= JwksTtlSeconds)
             /\ (mw.fetched_ok /\ JwksAge < JwksTtlSeconds)
                   => /\ last'.fetches = 0
                      /\ last'.jwks = mw.jwks_cache
                      /\ mw' = mw
             /\ (mw.fetched_ok /\ JwksAge >= JwksTtlSeconds) => last'.fetches = 1]_vars

\* a call after the clock moved, inside the window of a successful fetch, was
\* answered from the cache
C28_Witness ==
    /\ last.op = "fetch_jwks" /\ last.fetches = 0
    /\ mw.fetched_ok /\ JwksAge > 0 /\ JwksAge < JwksTtlSeconds
    /\ last.jwks = mw.jwks_cache /\ last.jwks.keys /= {}

\* C29: when a refetch fails after an earlier successful fetch, the cache keeps
\* the key set it had, that key set is what the call returns, and a token
\* signed with a key of it still verifies.
C29_FailedRefetchKeepsCache ==
    [][(/\ last'.op \in {"fetch_jwks", "verify_token"}
        /\ last'.fetches = 1 /\ last'.answer.kind = "fail"
        /\ mw.fetched_ok)
          => /\ mw'.jwks_cache = mw.jwks_cache
             /\ last'.jwks = mw.jwks_cache
             /\ (last'.op = "verify_token"
                    /\ SignedWithCachedKey(mw.jwks_cache, last'.bearer))
                   => (last'.verified /\ last'.claims.sub = last'.bearer.sub)]_vars

\* a token verified against the stale key set while the refetch failed
C29_Witness ==
    /\ last.op = "verify_token" /\ last.fetches = 1 /\ last.answer.kind = "fail"
    /\ mw.fetched_ok /\ JwksAge >= JwksTtlSeconds
    /\ last.verified /\ SignedWithCachedKey(mw.jwks_cache, last.bearer)

\* C30: while no key set has ever been fetched, a failed fetch returns an empty
\* key set and the token is rejected; the failure is not remembered, so every
\* verification until the first success sends a GET again, and the verification
\* whose GET succeeds uses the keys it fetched.
C30_FailureNotCached ==
    [][(last'.op \in {"fetch_jwks", "verify_token"} /\ ~mw.fetched_ok)
          => /\ last'.fetches = 1
             /\ last'.answer.kind = "fail"
                   => /\ last'.jwks.keys = {}
                      /\ ~last'.verified
                      /\ ~mw'.fetched_ok
             /\ last'.answer.kind /= "fail"
                   => /\ last'.jwks.keys = last'.answer.keys
                      /\ mw'.jwks_cache.keys = last'.answer.keys
                      /\ last'.op = "verify_token"
                            => (last'.verified
                                   <=> SignedWithCachedKey(last'.answer, last'.bearer))]_vars

\* a verification failed on an endpoint that was still down at a later time
C30_Witness ==
    /\ last.op = "verify_token" /\ last.fetches = 1 /\ last.answer.kind = "fail"
    /\ ~mw.fetched_ok /\ mw.jwks_cache.set /\ now > 0
    /\ last.jwks.keys = {} /\ ~last.verified

\* C38: Slack session resolution is total: whatever the stored record holds,
\* from_context returns a service holding the stored access token or the
\* authorization-required result, and never raises because of the payload.
C38_SlackResolutionTotal ==
    last.op = "slack_from_context"
    => /\ last.result \in {"service", "requires_auth"}
       /\ last.result = "service"
             => (/\ HasRow(store, last.id, "slack")
                 /\ last.token = StoredPayload(last.id, "slack").access_token)

\* C39: once a key set that is not empty is cached, no _fetch_jwks call
\* replaces it with an empty one: a refetch answered successfully with a body
\* that holds no key list leaves the cached keys in effect.
C39_CachedKeysNeverEmptied ==
    [][(last'.op \in {"fetch_jwks", "verify_token"} /\ mw.jwks_cache.keys /= {})
          => /\ mw'.jwks_cache.keys /= {}
             /\ (last'.fetches = 1 /\ last'.answer.kind = "other")
                   => (mw'.jwks_cache = mw.jwks_cache /\ last'.jwks = mw.jwks_cache)]_vars

\* C40: decrypt_text returns the plaintext whenever the key that encrypted the
\* value is in the configured ring, also when another entry of the ring is
\* malformed.
C40_MalformedEntryTolerated ==
    (/\ last.op = "decrypt_text" /\ last.arg.enc /\ last.arg.key \in ValidKeys
     /\ \E i \in DOMAIN last.ring : last.ring[i] = last.arg.key)
    => last.dec = <<last.arg.text, TRUE, TRUE>>

\* C34: on_message awaits call_next exactly once for a request on every path,
\* the header path with a raising handler included; the handler's exception
\* leaves on_message and the handler is never run a second time.
C34_HandlerRunsOnce ==
    last.op = "on_message"
    => /\ last.calls = 1
       /\ last.handler = "raises" => last.raised

\* C35: a callback writes a token record for identity X only after the gateway
\* handed a consent URL whose state names X to a caller authenticated as X; a
\* callback request whose state no flow of the gateway carries writes nothing.
C35_WriteOnlyForIssuedState ==
    [][(last'.op \in {"slack_callback", "google_callback"}
           /\ (last'.writes = 1 \/ store' /= store))
          => <<last'.typ, last'.key>> \in issued]_vars

\* the Google record of u1
RaceRows == Rows(store, <<"u1">>, "google")

\* both requests refreshed the record and committed
BothRefreshed ==
    \A p \in Procs : /\ procs[p].op = "refresh" /\ procs[p].pc = "done"
                     /\ procs[p].result = "true" /\ procs[p].resp.kind = "json"

\* C31: when two requests refresh the expired token of one (identity,
\* provider) pair at the same time, both may call the provider, and once both
\* have finished the store holds exactly one record for the pair, whose
\* payload is wholly what one of the two refreshes wrote: the one that
\* committed last.
C31_ConcurrentRefreshLastWriteWins ==
    BothRefreshed
    => /\ Cardinality(RaceRows) = 1
       /\ \E p \in Procs : TheRow(store, <<"u1">>, "google").token_json = procs[p].token_json
       /\ last.op = "refresh_done"
             => TheRow(store, <<"u1">>, "google").token_json = procs[last.proc].token_json

\* both refreshes loaded the record the consent flow left, so neither saw the
\* other's commit, and they wrote different payloads
C31_Witness ==
    /\ BothRefreshed
    /\ \A p \in Procs : procs[p].loaded = ConsentedRow.token_json
    /\ procs["p1"].token_json /= procs["p2"].token_json
    /\ TheRow(store, <<"u1">>, "google").token_json = procs["p2"].token_json

\* C32: no request has a database transaction open while its request to the
\* provider is in flight.
C32_NoTransactionAcrossPost ==
    \A p \in Procs : procs[p].pc = "awaiting_post" => ~procs[p].txn

\* the cached key set with the time of the fetch it is said to come from
CachePair(m) == <<m.jwks_cache, m.jwks_last_fetch>>

\* C33: however _fetch_jwks calls overlap, the cache holds the value it started
\* with, the empty key set, or the whole key set one single fetch returned,
\* and with it the time that same fetch took; after a fetch that succeeded
\* they are those of that fetch, and a fetch that fails changes neither once
\* a key set was fetched.
C33_CacheFromOneFetch ==
    /\ [](/\ \/ \E i \in InitialCaches : CachePair(mw) = CachePair(i)
             \/ CachePair(mw) = <<[set |-> TRUE, keys |-> {}], 0>>
             \/ \E p \in Procs :
                   /\ procs[p].result = "fetched"
                   /\ CachePair(mw) = <<NormalizeJwks(procs[p].answer),
                                        time_time(procs[p].started)>>
          /\ (last.op = "fetch_done" /\ last.answer.kind /= "fail")
                => CachePair(mw) = <<NormalizeJwks(last.answer),
                                     time_time(procs[last.proc].started)>>)
    /\ [][(last'.op = "fetch_done" /\ last'.answer.kind = "fail" /\ mw.jwks_cache.set)
             => CachePair(mw') = CachePair(mw)]_vars

\* two fetches overlapped, the one that started first was answered last, and
\* the cache holds its key set with its time
C33_Witness ==
    /\ procs["p1"].result = "fetched" /\ procs["p2"].result = "fetched"
    /\ procs["p1"].started < procs["p2"].started
    /\ procs["p1"].answer /= procs["p2"].answer
    /\ last.op = "fetch_done" /\ last.proc = "p1"
    /\ CachePair(mw) = <<NormalizeJwks(procs["p1"].answer), time_time(procs["p1"].started)>>

\* C36: a refresh never overwrites what a callback for the same identity
\* stored after the refresh loaded the record: once both are done the record's
\* refresh token is the one the callback stored.
C36_RefreshKeepsCallbackCredentials ==
    \A p, q \in Procs :
       (/\ procs[p].op = "callback" /\ procs[p].result = "stored" /\ procs[p].raced
        /\ procs[q].op = "refresh" /\ procs[q].pc = "done")
       => /\ RaceRows /= {}
          /\ TheRow(store, <<"u1">>, "google").token_json.text.refresh_token
                = procs[p].data.refresh_token

\* C37: two write_token calls for one pair that has no record, each having
\* found none, both end without an error and leave exactly one record, which
\* holds the payload of one of them.
C37_ConcurrentFirstWrites ==
    \A p, q \in Procs :
       (/\ p /= q
        /\ procs[p].op = "write_token" /\ procs[q].op = "write_token"
        /\ procs[p].id = procs[q].id /\ procs[p].result = procs[q].result
        /\ ~procs[p].found /\ ~procs[q].found
        /\ procs[p].pc \in {"done", "raised"} /\ procs[q].pc \in {"done", "raised"})
       => /\ procs[p].pc = "done" /\ procs[q].pc = "done"
          /\ Cardinality(Rows(store, procs[p].id, procs[p].result)) = 1
          /\ TheRow(store, procs[p].id, procs[p].result).token_json
                \in {procs[p].token_json, procs[q].token_json}


====
